---- MODULE Spec2Model ----
(***************************************************************************)
(* Model of demos/sample_azure_iot_pnp/sample_azure_iot_pnp.c: the         *)
(* thermostat Plug-and-Play sample.  The model covers the device values    *)
(* and their update rule, the connect-with-backoff loop, the command       *)
(* callback, the property callback and the demo task that drives them.     *)
(*                                                                         *)
(* Temperatures are C doubles in the source.  They are modelled by         *)
(* integers (whole degrees): the source only compares, copies and adds     *)
(* them, and the quotient sum / count is kept as an exact fraction         *)
(* <<numerator, denominator>> in lowest terms, so rounding of the double   *)
(* arithmetic is not part of the model.                                    *)
(***************************************************************************)
EXTENDS Integers, Sequences, FiniteSets, TLC

(***************************************************************************)
(* Program constants.                                                      *)
(***************************************************************************)
sampleazureiotRETRY_MAX_ATTEMPTS == 5
sampleazureiotRETRY_MAX_BACKOFF_DELAY_MS == 5000
sampleazureiotRETRY_BACKOFF_BASE_MS == 500
sampleazureiotPROPERTY_STATUS_SUCCESS == 200
sampleazureiotDEFAULT_START_TEMP_COUNT == 1
sampleazureiotDEFAULT_START_TEMP_CELSIUS == 22
sampleazureiotCOMMAND_MAX_MIN_REPORT ==
    <<"g","e","t","M","a","x","M","i","n","R","e","p","o","r","t">>
sampleazureiotCOMMAND_FAKE_END_TIME == "2023-01-10T10:00:00Z"
sampleazureiotPROPERTY_TARGET_TEMPERATURE_TEXT == "targetTemperature"

\* usNextRetryBackOff is a uint16_t: the value stored in it wraps at 2^16.
\* (ulDeviceTemperatureCount is a uint32_t; MaxUpdates keeps it far below
\* 2^32, so its wrap-around is outside the runs checked here.)
UInt16Modulus == 65536

(***************************************************************************)
(* Bounds of the model.                                                    *)
(***************************************************************************)
\* Most property updates applied to the device values in one run.
MaxUpdates == 3
\* Most entries of one property document the task is sent while it runs as a
\* whole.
MaxEntries == 1
\* Most entries of a property document that is an input fixed from the start
\* (the stand-alone callback specification).
MaxInputEntries == 3
\* Most BackoffAlgorithm_GetNextBackoff calls after the retries are used up
\* (only the stand-alone backoff specification calls it again).
MaxExtraCalls == 2
\* Most BackoffAlgorithm_InitializeParams calls of the stand-alone backoff
\* specification after the first.
MaxRestarts == 2

\* Temperatures a property document may carry.
Temps == {20, 25}
\* Versions a property document may carry.
Versions == {1, 2}
\* Values configRAND32() returns (a sample of the 32-bit range).
RandomValues == {0, 500, 1234, 5000, 2147483647}
\* Command names the hub may send (strings are sequences of characters): the
\* known one, a strict prefix of it, an extension of it, one that differs in
\* case only, one of equal length that differs in content, the empty name.
CommandNames ==
    { <<"g","e","t","M","a","x","M","i","n","R","e","p","o","r","t">>,
      <<"g","e","t","M","a","x","M","i","n">>,
      <<"g","e","t","M","a","x","M","i","n","R","e","p","o","r","t","X">>,
      <<"g","e","t","m","a","x","m","i","n","r","e","p","o","r","t">>,
      <<"s","e","t","M","a","x","M","i","n","R","e","p","o","r","t">>,
      <<>> }
\* Start-time strings a command payload may carry.
StartTimes == {"2023-01-01T00:00:00Z", ""}

Min(a, b) == IF a < b THEN a ELSE b
Abs(a) == IF a < 0 THEN -a ELSE a

RECURSIVE GCD(_, _)
GCD(a, b) == IF b = 0 THEN a ELSE GCD(b, a % b)

\* The quotient n / d of the double division, as an exact fraction in lowest
\* terms; d = 0 (the count wrapped to 0) gives an infinity or a NaN, kept
\* as <<n, 0>>.
Quotient(n, d) ==
    IF d = 0 THEN <<n, 0>>
    ELSE LET g == GCD(Abs(n), d) IN <<n \div g, d \div g>>

RECURSIVE SumSeq(_)
SumSeq(s) == IF s = <<>> THEN 0 ELSE s[1] + SumSeq(Tail(s))

(***************************************************************************)
(* State.                                                                  *)
(***************************************************************************)
VARIABLES
    \* the device values (file-scope statics)
    xDeviceCurrentTemperature,
    xDeviceMaximumTemperature,
    xDeviceMinimumTemperature,
    xDeviceTemperatureSummation,
    ulDeviceTemperatureCount,
    xDeviceAverageTemperature,
    \* locals of prvHandlePropertyUpdate
    xIncomingTemperature,
    ulVersion,
    xWasMaxTemperatureChanged,
    \* xResult of the callback that runs (prvHandleCommand or
    \* prvHandlePropertyUpdate) as it is when the callback tests it to choose
    \* what it sends
    xHandlerResult,
    \* locals of prvConnectToServerWithBackoffRetries
    xNetworkStatus,
    xBackoffAlgStatus,
    xReconnectParams,
    usNextRetryBackOff,
    \* ulStatus of the caller of prvConnectToServerWithBackoffRetries
    ulStatus,
    \* xResult of prvAzureDemoTask
    xResult,
    \* the message the hub hands to a callback, where it is an input fixed
    \* from the start; "none" where messages arrive as the poll finds them
    pxMessage,
    \* the build: configASSERT halts the task or is compiled out;
    \* democonfigENABLE_DPS_SAMPLE is defined or not
    assertsEnabled,
    dpsEnabled,
    \* position of the demo task, and who called the connect function
    pc,
    caller,
    \* the collaborators: the TLS transport and the hub session (with the
    \* hub's count of the property requests made on it and the version of
    \* the last temperature acknowledgment it received)
    transport,
    session,
    subscribed,
    \* what the last step sent to the hub, in order
    out,
    \* record of what the last step was
    last,
    \* history: the values applied to the device values so far, the calls of
    \* the current connect invocation, the invocations started so far
    \* and how the invocation before the current one ended
    applied,
    nConnects,
    nBackoffs,
    nSleeps,
    invocations,
    previous

deviceVars ==
    <<xDeviceCurrentTemperature, xDeviceMaximumTemperature,
      xDeviceMinimumTemperature, xDeviceTemperatureSummation,
      ulDeviceTemperatureCount, xDeviceAverageTemperature, applied>>
updateVars ==
    <<xIncomingTemperature, ulVersion, xWasMaxTemperatureChanged,
      xHandlerResult>>
connectVars ==
    <<xNetworkStatus, xBackoffAlgStatus, xReconnectParams, usNextRetryBackOff,
      nConnects, nBackoffs, nSleeps>>
buildVars == <<assertsEnabled, dpsEnabled>>
hubVars == <<transport, session, subscribed>>
vars ==
    <<deviceVars, updateVars, connectVars, ulStatus, xResult, pxMessage,
      buildVars, pc, caller, hubVars, out, last, invocations, previous>>

(***************************************************************************)
(* The backoffAlgorithm library (BackoffRetryPolicy).                      *)
(***************************************************************************)
\* initialize(base, max, maxAttempts): the attempt count starts at zero.
BackoffAlgorithm_InitializeParams(base, max, maxAttempts) ==
    [baseDelay |-> base, maxDelay |-> max, maxAttempts |-> maxAttempts,
     attemptCount |-> 0]

\* nextDelay: with retries left, the delay is the random value reduced to
\* [0, min(max, base * 2^attemptCount)] and the attempt is counted; with none
\* left the outcome is exhausted, no delay is produced (delay keeps the
\* caller's value) and the count stays.
BackoffAlgorithm_GetNextBackoff(ctx, randomValue, nextBackOff) ==
    IF ctx.attemptCount < ctx.maxAttempts
    THEN [status |-> "BackoffAlgorithmSuccess",
          delay |-> (randomValue
                       % (Min(ctx.maxDelay,
                              ctx.baseDelay * 2 ^ ctx.attemptCount) + 1))
                    % UInt16Modulus,
          ctx |-> [ctx EXCEPT !.attemptCount = @ + 1]]
    ELSE [status |-> "BackoffAlgorithmRetriesExhausted",
          delay |-> nextBackOff,
          ctx |-> ctx]

(***************************************************************************)
(* The device values.                                                      *)
(***************************************************************************)
\* Mutant of prvUpdateLocalProperties: the maximum is not raised.
prvUpdateLocalProperties_KeepsMaximum(xNewTemperatureValue) ==
    /\ xDeviceCurrentTemperature' = xNewTemperatureValue
    /\ IF xNewTemperatureValue > xDeviceMaximumTemperature
       THEN /\ xDeviceMaximumTemperature' = xDeviceMaximumTemperature
            /\ xWasMaxTemperatureChanged' = TRUE
            /\ UNCHANGED xDeviceMinimumTemperature
       ELSE /\ xWasMaxTemperatureChanged' = FALSE
            /\ UNCHANGED xDeviceMaximumTemperature
            /\ IF xNewTemperatureValue < xDeviceMinimumTemperature
               THEN xDeviceMinimumTemperature' = xNewTemperatureValue
               ELSE UNCHANGED xDeviceMinimumTemperature
    /\ ulDeviceTemperatureCount' = ulDeviceTemperatureCount + 1
    /\ xDeviceTemperatureSummation' =
           xDeviceTemperatureSummation + xNewTemperatureValue
    /\ xDeviceAverageTemperature' =
           Quotient(xDeviceTemperatureSummation + xNewTemperatureValue,
                    ulDeviceTemperatureCount + 1)
    /\ applied' = Append(applied, xNewTemperatureValue)

\* Mutant of prvUpdateLocalProperties: the average is taken before the
\* new value is added to the sum.
prvUpdateLocalProperties_AverageBeforeAdd(xNewTemperatureValue) ==
    /\ xDeviceCurrentTemperature' = xNewTemperatureValue
    /\ IF xNewTemperatureValue > xDeviceMaximumTemperature
       THEN /\ xDeviceMaximumTemperature' = xNewTemperatureValue
            /\ xWasMaxTemperatureChanged' = TRUE
            /\ UNCHANGED xDeviceMinimumTemperature
       ELSE /\ xWasMaxTemperatureChanged' = FALSE
            /\ UNCHANGED xDeviceMaximumTemperature
            /\ IF xNewTemperatureValue < xDeviceMinimumTemperature
               THEN xDeviceMinimumTemperature' = xNewTemperatureValue
               ELSE UNCHANGED xDeviceMinimumTemperature
    /\ ulDeviceTemperatureCount' = ulDeviceTemperatureCount + 1
    /\ xDeviceTemperatureSummation' =
           xDeviceTemperatureSummation + xNewTemperatureValue
    /\ xDeviceAverageTemperature' =
           Quotient(xDeviceTemperatureSummation,
                    ulDeviceTemperatureCount + 1)
    /\ applied' = Append(applied, xNewTemperatureValue)

\* Mutant of prvUpdateLocalProperties: *pxOutMaxTempChanged is not set.
prvUpdateLocalProperties_FlagNotSet(xNewTemperatureValue) ==
    /\ xDeviceCurrentTemperature' = xNewTemperatureValue
    /\ IF xNewTemperatureValue > xDeviceMaximumTemperature
       THEN /\ xDeviceMaximumTemperature' = xNewTemperatureValue
            /\ xWasMaxTemperatureChanged' = FALSE
            /\ UNCHANGED xDeviceMinimumTemperature
       ELSE /\ xWasMaxTemperatureChanged' = FALSE
            /\ UNCHANGED xDeviceMaximumTemperature
            /\ IF xNewTemperatureValue < xDeviceMinimumTemperature
               THEN xDeviceMinimumTemperature' = xNewTemperatureValue
               ELSE UNCHANGED xDeviceMinimumTemperature
    /\ ulDeviceTemperatureCount' = ulDeviceTemperatureCount + 1
    /\ xDeviceTemperatureSummation' =
           xDeviceTemperatureSummation + xNewTemperatureValue
    /\ xDeviceAverageTemperature' =
           Quotient(xDeviceTemperatureSummation + xNewTemperatureValue,
                    ulDeviceTemperatureCount + 1)
    /\ applied' = Append(applied, xNewTemperatureValue)

\* Mutant of prvUpdateLocalProperties: the minimum is not lowered.
prvUpdateLocalProperties_MinimumNotLowered(xNewTemperatureValue) ==
    /\ xDeviceCurrentTemperature' = xNewTemperatureValue
    /\ IF xNewTemperatureValue > xDeviceMaximumTemperature
       THEN /\ xDeviceMaximumTemperature' = xNewTemperatureValue
            /\ xWasMaxTemperatureChanged' = TRUE
            /\ UNCHANGED xDeviceMinimumTemperature
       ELSE /\ xWasMaxTemperatureChanged' = FALSE
            /\ UNCHANGED xDeviceMaximumTemperature
            /\ UNCHANGED xDeviceMinimumTemperature
    /\ ulDeviceTemperatureCount' = ulDeviceTemperatureCount + 1
    /\ xDeviceTemperatureSummation' =
           xDeviceTemperatureSummation + xNewTemperatureValue
    /\ xDeviceAverageTemperature' =
           Quotient(xDeviceTemperatureSummation + xNewTemperatureValue,
                    ulDeviceTemperatureCount + 1)
    /\ applied' = Append(applied, xNewTemperatureValue)

\* Mutant of prvUpdateLocalProperties: the maximum is tested with >=.
prvUpdateLocalProperties_TestsNotBelow(xNewTemperatureValue) ==
    /\ xDeviceCurrentTemperature' = xNewTemperatureValue
    /\ IF xNewTemperatureValue >= xDeviceMaximumTemperature
       THEN /\ xDeviceMaximumTemperature' = xNewTemperatureValue
            /\ xWasMaxTemperatureChanged' = TRUE
            /\ UNCHANGED xDeviceMinimumTemperature
       ELSE /\ xWasMaxTemperatureChanged' = FALSE
            /\ UNCHANGED xDeviceMaximumTemperature
            /\ IF xNewTemperatureValue < xDeviceMinimumTemperature
               THEN xDeviceMinimumTemperature' = xNewTemperatureValue
               ELSE UNCHANGED xDeviceMinimumTemperature
    /\ ulDeviceTemperatureCount' = ulDeviceTemperatureCount + 1
    /\ xDeviceTemperatureSummation' =
           xDeviceTemperatureSummation + xNewTemperatureValue
    /\ xDeviceAverageTemperature' =
           Quotient(xDeviceTemperatureSummation + xNewTemperatureValue,
                    ulDeviceTemperatureCount + 1)
    /\ applied' = Append(applied, xNewTemperatureValue)

\* prvUpdateLocalProperties( xNewTemperatureValue, ulPropertyVersion,
\*                           pxOutMaxTempChanged )
prvUpdateLocalProperties(xNewTemperatureValue) ==
    /\ xDeviceCurrentTemperature' = xNewTemperatureValue
    /\ IF xNewTemperatureValue > xDeviceMaximumTemperature
       THEN /\ xDeviceMaximumTemperature' = xNewTemperatureValue
            /\ xWasMaxTemperatureChanged' = TRUE
            /\ UNCHANGED xDeviceMinimumTemperature
       ELSE /\ xWasMaxTemperatureChanged' = FALSE
            /\ UNCHANGED xDeviceMaximumTemperature
            /\ IF xNewTemperatureValue < xDeviceMinimumTemperature
               THEN xDeviceMinimumTemperature' = xNewTemperatureValue
               ELSE UNCHANGED xDeviceMinimumTemperature
    /\ ulDeviceTemperatureCount' = ulDeviceTemperatureCount + 1
    /\ xDeviceTemperatureSummation' =
           xDeviceTemperatureSummation + xNewTemperatureValue
    /\ xDeviceAverageTemperature' =
           Quotient(xDeviceTemperatureSummation + xNewTemperatureValue,
                    ulDeviceTemperatureCount + 1)
    /\ applied' = Append(applied, xNewTemperatureValue)

(***************************************************************************)
(* prvConnectToServerWithBackoffRetries.                                   *)
(***************************************************************************)
InConnect == pc \in {"tls_connect", "backoff", "sleep", "loop_cond"}

\* configASSERT( x ): with assertions compiled in, a false x stops the task.
AssertThen(x, next) == IF ~x /\ assertsEnabled THEN "halted" ELSE next

\* Outside a call the locals of the function do not exist: they are kept at
\* fixed values.
NoConnectFrame ==
    /\ xNetworkStatus = "unset"
    /\ xBackoffAlgStatus = "BackoffAlgorithmSuccess"
    /\ xReconnectParams = BackoffAlgorithm_InitializeParams(0, 0, 0)
    /\ usNextRetryBackOff = 0
    /\ nConnects = 0
    /\ nBackoffs = 0
    /\ nSleeps = 0

\* The function returns: its locals are gone.
PopConnectFrame ==
    /\ xNetworkStatus' = "unset"
    /\ xBackoffAlgStatus' = "BackoffAlgorithmSuccess"
    /\ xReconnectParams' = BackoffAlgorithm_InitializeParams(0, 0, 0)
    /\ usNextRetryBackOff' = 0
    /\ nConnects' = 0
    /\ nBackoffs' = 0
    /\ nSleeps' = 0

\* Mutant of ReconnectParamsInit: the last two arguments are swapped.
ReconnectParamsInit_ArgumentsSwapped ==
    BackoffAlgorithm_InitializeParams(sampleazureiotRETRY_BACKOFF_BASE_MS,
                                      sampleazureiotRETRY_MAX_ATTEMPTS,
                                      sampleazureiotRETRY_MAX_BACKOFF_DELAY_MS)

\* Mutant of ReconnectParamsInit: one attempt too many.
ReconnectParamsInit_OneMoreAttempt ==
    BackoffAlgorithm_InitializeParams(sampleazureiotRETRY_BACKOFF_BASE_MS,
                                      sampleazureiotRETRY_MAX_BACKOFF_DELAY_MS,
                                      sampleazureiotRETRY_MAX_ATTEMPTS + 1)

\* The parameters the function gives the backoff context.
ReconnectParamsInit ==
    BackoffAlgorithm_InitializeParams(sampleazureiotRETRY_BACKOFF_BASE_MS,
                                      sampleazureiotRETRY_MAX_BACKOFF_DELAY_MS,
                                      sampleazureiotRETRY_MAX_ATTEMPTS)

\* Mutant of ConnectEnter: BackoffAlgorithm_InitializeParams is not called.
ConnectEnter_NoInitializeParams(who) ==
    /\ xBackoffAlgStatus' = "BackoffAlgorithmSuccess"
    /\ usNextRetryBackOff' = 0
    /\ xReconnectParams' = xReconnectParams
    /\ xNetworkStatus' = "unset"
    /\ nConnects' = 0
    /\ nBackoffs' = 0
    /\ nSleeps' = 0
    /\ invocations' = invocations + 1
    /\ caller' = who
    /\ pc' = "tls_connect"
    /\ out' = <<>>
    /\ last' = "prvConnectToServerWithBackoffRetries"
    /\ UNCHANGED <<deviceVars, updateVars, ulStatus, xResult, pxMessage,
                   buildVars, hubVars, previous>>

\* Entry of the function: the declarations with their initializers and the
\* BackoffAlgorithm_InitializeParams call.
ConnectEnter(who) ==
    /\ xBackoffAlgStatus' = "BackoffAlgorithmSuccess"
    /\ usNextRetryBackOff' = 0
    /\ xReconnectParams' = ReconnectParamsInit
    /\ xNetworkStatus' = "unset"
    /\ nConnects' = 0
    /\ nBackoffs' = 0
    /\ nSleeps' = 0
    /\ invocations' = invocations + 1
    /\ caller' = who
    /\ pc' = "tls_connect"
    /\ out' = <<>>
    /\ last' = "prvConnectToServerWithBackoffRetries"
    /\ UNCHANGED <<deviceVars, updateVars, ulStatus, xResult, pxMessage,
                   buildVars, hubVars, previous>>

\* TLS_Socket_Connect, and the test of its result.
ConnectAttempt ==
    /\ pc = "tls_connect"
    /\ \E ok \in BOOLEAN :
          /\ xNetworkStatus' = IF ok THEN "eTLSTransportSuccess"
                                     ELSE "eTLSTransportConnectFailure"
          /\ transport' = IF ok THEN "open" ELSE "closed"
          /\ pc' = IF ok THEN "loop_cond" ELSE "backoff"
    /\ nConnects' = nConnects + 1
    /\ out' = <<>>
    /\ last' = "TLS_Socket_Connect"
    /\ UNCHANGED <<deviceVars, updateVars, xBackoffAlgStatus, xReconnectParams,
                   usNextRetryBackOff, nBackoffs, nSleeps, ulStatus, xResult,
                   pxMessage, buildVars, caller, session, subscribed,
                   invocations, previous>>

\* xBackoffAlgStatus = BackoffAlgorithm_GetNextBackoff( &xReconnectParams,
\* configRAND32(), &usNextRetryBackOff )
CallGetNextBackoff ==
    /\ \E randomValue \in RandomValues :
          LET r == BackoffAlgorithm_GetNextBackoff(xReconnectParams,
                                                   randomValue,
                                                   usNextRetryBackOff)
          IN /\ xBackoffAlgStatus' = r.status
             /\ usNextRetryBackOff' = r.delay
             /\ xReconnectParams' = r.ctx
    /\ nBackoffs' = nBackoffs + 1

\* Mutant of ConnectBackoff: the delay is taken whatever the status.
ConnectBackoff_SleepsWhenExhausted ==
    /\ pc = "backoff"
    /\ CallGetNextBackoff
    /\ pc' = "sleep"
    /\ out' = <<>>
    /\ last' = "BackoffAlgorithm_GetNextBackoff"
    /\ UNCHANGED <<deviceVars, updateVars, xNetworkStatus, nConnects, nSleeps,
                   ulStatus, xResult, pxMessage, buildVars, caller, hubVars,
                   invocations, previous>>

\* The call of BackoffAlgorithm_GetNextBackoff and the test of its status:
\* exhausted is logged, success leads to the delay.
ConnectBackoff ==
    /\ pc = "backoff"
    /\ CallGetNextBackoff
    /\ pc' = IF xBackoffAlgStatus' = "BackoffAlgorithmSuccess"
             THEN "sleep" ELSE "loop_cond"
    /\ out' = <<>>
    /\ last' = "BackoffAlgorithm_GetNextBackoff"
    /\ UNCHANGED <<deviceVars, updateVars, xNetworkStatus, nConnects, nSleeps,
                   ulStatus, xResult, pxMessage, buildVars, caller, hubVars,
                   invocations, previous>>

\* vTaskDelay( pdMS_TO_TICKS( usNextRetryBackOff ) )
ConnectSleep ==
    /\ pc = "sleep"
    /\ nSleeps' = nSleeps + 1
    /\ pc' = "loop_cond"
    /\ out' = <<>>
    /\ last' = "vTaskDelay"
    /\ UNCHANGED <<deviceVars, updateVars, xNetworkStatus, xBackoffAlgStatus,
                   xReconnectParams, usNextRetryBackOff, nConnects, nBackoffs,
                   ulStatus, xResult, pxMessage, buildVars, caller, hubVars,
                   invocations, previous>>

\* Mutant of ConnectLoopCondition: the backoff status is not looked at.
ConnectLoopCondition_IgnoresBackoffStatus ==
    xNetworkStatus # "eTLSTransportSuccess"

\* Mutant of ConnectLoopCondition: the result of the connect is not looked at.
ConnectLoopCondition_IgnoresNetworkStatus ==
    xBackoffAlgStatus = "BackoffAlgorithmSuccess"

\* The condition of the do-while loop.
ConnectLoopCondition ==
    /\ xNetworkStatus # "eTLSTransportSuccess"
    /\ xBackoffAlgStatus = "BackoffAlgorithmSuccess"

\* Mutant of ConnectRetry: the loop goes round to the backoff, without a new
\* connect.
ConnectRetry_SkipsConnect ==
    /\ pc = "loop_cond"
    /\ ConnectLoopCondition
    /\ pc' = "backoff"
    /\ out' = <<>>
    /\ last' = "retry"
    /\ UNCHANGED <<deviceVars, updateVars, connectVars, ulStatus, xResult,
                   pxMessage, buildVars, caller, hubVars, invocations,
                   previous>>

\* The loop goes round.
ConnectRetry ==
    /\ pc = "loop_cond"
    /\ ConnectLoopCondition
    /\ pc' = "tls_connect"
    /\ out' = <<>>
    /\ last' = "retry"
    /\ UNCHANGED <<deviceVars, updateVars, connectVars, ulStatus, xResult,
                   pxMessage, buildVars, caller, hubVars, invocations,
                   previous>>

\* The loop ends: return xNetworkStatus == eTLSTransportSuccess ? 0 : 1.
ConnectReturn ==
    /\ pc = "loop_cond"
    /\ ~ConnectLoopCondition
    /\ ulStatus' = IF xNetworkStatus = "eTLSTransportSuccess" THEN 0 ELSE 1
    /\ pc' = IF caller = "dps" THEN "dps_assert" ELSE "task_assert"
    /\ previous' = IF xNetworkStatus = "eTLSTransportSuccess"
                    THEN "connected" ELSE "exhausted"
    /\ PopConnectFrame
    /\ out' = <<>>
    /\ last' = "return"
    /\ UNCHANGED <<deviceVars, updateVars, xResult, pxMessage, buildVars,
                   caller, hubVars, invocations>>

(***************************************************************************)
(* Messages sent to the hub.  A payload is the sequence of the             *)
(* <<name, value>> members of its JSON object; "{}" is the empty sequence. *)
(***************************************************************************)
sampleazureiotCOMMAND_EMPTY_PAYLOAD == <<>>

\* Bytes of a JSON object: the two braces and its members.
JSONBytesUsed(members) == 2 + Len(members)

CommandResponse(code, payload) ==
    [kind |-> "commandResponse", code |-> code, version |-> 0, value |-> 0,
     payload |-> payload]
Telemetry(temperature) ==
    [kind |-> "telemetry", code |-> 0, version |-> 0, value |-> temperature,
     payload |-> <<>>]
\* The reported property maxTempSinceLastReboot (prvSendNewMaxTemp).
MaxTempReport(temperature) ==
    [kind |-> "maxTempReport", code |-> 0, version |-> 0,
     value |-> temperature, payload |-> <<>>]
\* Mutant of TemperatureAck: the version is not put into the acknowledgment.
TemperatureAck_VersionDropped(temperature, version) ==
    [kind |-> "temperatureAck",
     code |-> sampleazureiotPROPERTY_STATUS_SUCCESS, version |-> 0,
     value |-> temperature, payload |-> <<>>]

\* The acknowledgment of targetTemperature (prvAckIncomingTemperature).
TemperatureAck(temperature, version) ==
    [kind |-> "temperatureAck",
     code |-> sampleazureiotPROPERTY_STATUS_SUCCESS, version |-> version,
     value |-> temperature, payload |-> <<>>]

(***************************************************************************)
(* The command callback.                                                   *)
(***************************************************************************)
\* Payloads of a command request: no bytes at all, bytes that are no JSON
\* token, a JSON value that is no string, a JSON string.
CommandPayloads ==
    {[kind |-> k, text |-> ""] : k \in {"empty", "garbage", "notString"}}
      \cup {[kind |-> "string", text |-> t] : t \in StartTimes}

\* What an AzureIoTJSONReader_t reads: AzureIoTJSONReader_Init rejects a
\* payload of no bytes; a reader used without a successful init (assertions
\* compiled out) is uninitialized memory and may behave as one over any bytes.
ReaderInitOk(payload) == payload.kind # "empty"
ReaderViews(payload) ==
    IF ReaderInitOk(payload) THEN {payload}
    ELSE {p \in CommandPayloads : p.kind # "empty"}

\* Character i of a C string (a sequence of characters, then the NUL).
CharAt(s, i) == IF i <= Len(s) THEN s[i] ELSE "NUL"

\* strncmp( s1, s2, n ) from character i on: 0 if equal, 1 if not.
RECURSIVE StrNCmpFrom(_, _, _, _)
StrNCmpFrom(s1, s2, n, i) ==
    IF i > n THEN 0
    ELSE IF CharAt(s1, i) # CharAt(s2, i) THEN 1
    ELSE IF CharAt(s1, i) = "NUL" THEN 0
    ELSE StrNCmpFrom(s1, s2, n, i + 1)

strncmp(s1, s2, n) == StrNCmpFrom(s1, s2, n, 1)

\* Mutant of IsMaxMinReport: the lengths are not compared.
IsMaxMinReport_LengthNotCompared(pucCommandName) ==
    LET lCommandNameLength == Len(sampleazureiotCOMMAND_MAX_MIN_REPORT)
    IN strncmp(sampleazureiotCOMMAND_MAX_MIN_REPORT, pucCommandName,
               lCommandNameLength) = 0

\* The test that a request is for the max min report.
IsMaxMinReport(pucCommandName) ==
    LET lCommandNameLength == Len(sampleazureiotCOMMAND_MAX_MIN_REPORT)
    IN /\ lCommandNameLength = Len(pucCommandName)
       /\ strncmp(sampleazureiotCOMMAND_MAX_MIN_REPORT, pucCommandName,
                  lCommandNameLength) = 0

\* Mutant of prvInvokeMaxMinCommand: the report gives the current temperature
\* as the maximum.
prvInvokeMaxMinCommand_CurrentForMaximum(reader, writerOk) ==
    IF reader.kind # "string"
    THEN [xResult |-> "eAzureIoTErrorFailed", written |-> <<>>]
    ELSE IF ~writerOk
    THEN [xResult |-> "eAzureIoTErrorOutOfMemory", written |-> <<>>]
    ELSE [xResult |-> "eAzureIoTSuccess",
          written |-> << <<"maxTemp", xDeviceCurrentTemperature>>,
                         <<"minTemp", xDeviceMinimumTemperature>>,
                         <<"avgTemp", xDeviceAverageTemperature>>,
                         <<"startTime", reader.text>>,
                         <<"endTime", sampleazureiotCOMMAND_FAKE_END_TIME>> >>]

\* prvInvokeMaxMinCommand( pxReader, pxWriter ): the result and what the
\* writer holds.  writerOk: the writer calls succeed.
prvInvokeMaxMinCommand(reader, writerOk) ==
    IF reader.kind = "garbage"
    THEN [xResult |-> "eAzureIoTErrorFailed", written |-> <<>>]
    ELSE IF reader.kind # "string"
    THEN [xResult |-> "eAzureIoTErrorFailed", written |-> <<>>]
    ELSE IF ~writerOk
    THEN [xResult |-> "eAzureIoTErrorOutOfMemory", written |-> <<>>]
    ELSE [xResult |-> "eAzureIoTSuccess",
          written |-> << <<"maxTemp", xDeviceMaximumTemperature>>,
                         <<"minTemp", xDeviceMinimumTemperature>>,
                         <<"avgTemp", xDeviceAverageTemperature>>,
                         <<"startTime", reader.text>>,
                         <<"endTime", sampleazureiotCOMMAND_FAKE_END_TIME>> >>]

\* Mutant of CommandResponses: a failed prvInvokeMaxMinCommand is answered
\* like a successful one.
CommandResponses_FailureAnswered200(pucCommandName, reader, writerOk) ==
    IF IsMaxMinReport(pucCommandName)
    THEN LET r == prvInvokeMaxMinCommand(reader, writerOk)
         IN <<CommandResponse(200, r.written)>>
    ELSE <<CommandResponse(404, sampleazureiotCOMMAND_EMPTY_PAYLOAD)>>

\* The responses prvHandleCommand sends for a request it runs to its end.
CommandResponses(pucCommandName, reader, writerOk) ==
    IF IsMaxMinReport(pucCommandName)
    THEN LET r == prvInvokeMaxMinCommand(reader, writerOk)
             ulCommandPayloadLength == JSONBytesUsed(r.written)
         IN IF r.xResult = "eAzureIoTSuccess"
            THEN IF ulCommandPayloadLength > 0
                 THEN <<CommandResponse(200, r.written)>>
                 ELSE <<>>
            ELSE <<CommandResponse(501, sampleazureiotCOMMAND_EMPTY_PAYLOAD)>>
    ELSE <<CommandResponse(404, sampleazureiotCOMMAND_EMPTY_PAYLOAD)>>

\* Mutant of prvHandleCommand: a request that is not answered 200 stops the
\* task.
prvHandleCommand_FailureHalts(pucCommandName, payload, writerOk) ==
    /\ pc = "poll"
    /\ session.connected
    /\ "command" \in subscribed
    /\ \E reader \in ReaderViews(payload) :
          /\ xHandlerResult' =
               IF IsMaxMinReport(pucCommandName)
               THEN prvInvokeMaxMinCommand(reader, writerOk).xResult
               ELSE "unset"
          /\ out' = CommandResponses(pucCommandName, reader, writerOk)
          /\ pc' = IF IsMaxMinReport(pucCommandName)
                      /\ prvInvokeMaxMinCommand(reader, writerOk).xResult
                            = "eAzureIoTSuccess"
                   THEN "callback_done"
                   ELSE "halted"
    /\ last' = "prvHandleCommand"
    /\ UNCHANGED <<deviceVars, xIncomingTemperature, ulVersion,
                   xWasMaxTemperatureChanged, connectVars, ulStatus, xResult,
                   pxMessage, buildVars, caller, hubVars, invocations,
                   previous>>

\* prvHandleCommand( pxMessage, pvContext ), called inside
\* AzureIoTHubClient_ProcessLoop.  The configASSERT after
\* AzureIoTJSONReader_Init stops the task before any response is sent.
prvHandleCommand(pucCommandName, payload, writerOk) ==
    /\ pc = "poll"
    /\ session.connected
    /\ "command" \in subscribed
    /\ IF IsMaxMinReport(pucCommandName)
          /\ AssertThen(ReaderInitOk(payload), "poll") = "halted"
       THEN /\ pc' = "halted"
            /\ xHandlerResult' = "eAzureIoTErrorFailed"
            /\ out' = <<>>
       ELSE /\ pc' = "callback_done"
            /\ \E reader \in ReaderViews(payload) :
                  /\ xHandlerResult' =
                       IF IsMaxMinReport(pucCommandName)
                       THEN prvInvokeMaxMinCommand(reader, writerOk).xResult
                       ELSE "unset"
                  /\ out' = CommandResponses(pucCommandName, reader, writerOk)
    /\ last' = "prvHandleCommand"
    /\ UNCHANGED <<deviceVars, xIncomingTemperature, ulVersion,
                   xWasMaxTemperatureChanged, connectVars, ulStatus, xResult,
                   pxMessage, buildVars, caller, hubVars, invocations,
                   previous>>

(***************************************************************************)
(* The property callback.                                                  *)
(***************************************************************************)
\* The entries of a property document, as
\* AzureIoTHubClientProperties_GetNextComponentProperty yields them: one under
\* a component (with the writable property's name or another), the writable
\* property with a number or with a value that is no number, and a property
\* this device does not know.
PropertyEntries ==
    {[componentNameLength |-> 11, name |-> n, isNumber |-> TRUE, value |-> 30]
        : n \in {sampleazureiotPROPERTY_TARGET_TEMPERATURE_TEXT, "other"}}
      \cup {[componentNameLength |-> 0,
             name |-> sampleazureiotPROPERTY_TARGET_TEMPERATURE_TEXT,
             isNumber |-> TRUE, value |-> t] : t \in Temps}
      \cup {[componentNameLength |-> 0,
             name |-> sampleazureiotPROPERTY_TARGET_TEMPERATURE_TEXT,
             isNumber |-> FALSE, value |-> 0],
            [componentNameLength |-> 0, name |-> "other",
             isNumber |-> TRUE, value |-> 30]}

SeqsUpTo(S, n) == UNION {[1..k -> S] : k \in 0..n}

\* The property messages the hub may send: the answer to a GET and a
\* writable-property update carry a document (its version readable or not,
\* its entries, and whether the iteration ends with end-of-properties or
\* with another error); the answer to a reported property carries none.
PropertyDocumentsUpTo(n) ==
    {[xMessageType |-> t, versionOk |-> v # 0, version |-> v, entries |-> es,
      endOfProperties |-> e] :
        t \in {"eAzureIoTHubPropertiesGetMessage",
               "eAzureIoTHubPropertiesWritablePropertyMessage"},
        v \in Versions \cup {0},
        es \in SeqsUpTo(PropertyEntries, n),
        e \in BOOLEAN}
      \cup {[xMessageType |-> "eAzureIoTHubPropertiesReportedResponseMessage",
             versionOk |-> FALSE, version |-> 0, entries |-> <<>>,
             endOfProperties |-> TRUE]}

PropertyDocuments == PropertyDocumentsUpTo(MaxEntries)

\* Mutant of ProcessEntries: a property the device does not know ends the
\* loop with an error.
RECURSIVE ProcessEntries_UnknownAborts(_, _, _)
ProcessEntries_UnknownAborts(doc, i, temperature) ==
    IF i > Len(doc.entries)
    THEN [xResult |-> IF doc.endOfProperties
                      THEN "eAzureIoTErrorEndOfProperties"
                      ELSE "eAzureIoTErrorFailed",
          temperature |-> temperature, consumed |-> i - 1]
    ELSE LET e == doc.entries[i]
         IN IF e.componentNameLength > 0
            THEN ProcessEntries_UnknownAborts(doc, i + 1, temperature)
            ELSE IF e.name = sampleazureiotPROPERTY_TARGET_TEMPERATURE_TEXT
            THEN IF e.isNumber
                 THEN ProcessEntries_UnknownAborts(doc, i + 1, e.value)
                 ELSE [xResult |-> "eAzureIoTErrorInvalidResponse",
                       temperature |-> temperature, consumed |-> i - 1]
            ELSE [xResult |-> "eAzureIoTErrorFailed",
                  temperature |-> temperature, consumed |-> i - 1]

\* Mutant of ProcessEntries: the loop ends at the first temperature it reads.
RECURSIVE ProcessEntries_FirstMatchEndsLoop(_, _, _)
ProcessEntries_FirstMatchEndsLoop(doc, i, temperature) ==
    IF i > Len(doc.entries)
    THEN [xResult |-> IF doc.endOfProperties
                      THEN "eAzureIoTErrorEndOfProperties"
                      ELSE "eAzureIoTErrorFailed",
          temperature |-> temperature, consumed |-> i - 1]
    ELSE LET e == doc.entries[i]
         IN IF e.componentNameLength > 0
            THEN ProcessEntries_FirstMatchEndsLoop(doc, i + 1, temperature)
            ELSE IF e.name = sampleazureiotPROPERTY_TARGET_TEMPERATURE_TEXT
            THEN IF e.isNumber
                 THEN [xResult |-> "eAzureIoTErrorEndOfProperties",
                       temperature |-> e.value, consumed |-> i]
                 ELSE [xResult |-> "eAzureIoTErrorInvalidResponse",
                       temperature |-> temperature, consumed |-> i - 1]
            ELSE ProcessEntries_FirstMatchEndsLoop(doc, i + 1, temperature)

\* The while loop of prvProcessProperties from entry i on, with
\* *pxOutTemperature = temperature: the xResult the loop ends with, the
\* temperature then and the number of entries the reader has gone past.
RECURSIVE ProcessEntries(_, _, _)
ProcessEntries(doc, i, temperature) ==
    IF i > Len(doc.entries)
    THEN [xResult |-> IF doc.endOfProperties
                      THEN "eAzureIoTErrorEndOfProperties"
                      ELSE "eAzureIoTErrorFailed",
          temperature |-> temperature, consumed |-> i - 1]
    ELSE LET e == doc.entries[i]
         IN IF e.componentNameLength > 0
            THEN ProcessEntries(doc, i + 1, temperature)
            ELSE IF e.name = sampleazureiotPROPERTY_TARGET_TEMPERATURE_TEXT
            THEN IF e.isNumber
                 THEN ProcessEntries(doc, i + 1, e.value)
                 ELSE [xResult |-> "eAzureIoTErrorInvalidResponse",
                       temperature |-> temperature, consumed |-> i - 1]
            ELSE ProcessEntries(doc, i + 1, temperature)

\* Mutant of prvProcessProperties: however the loop ends, the result is
\* success.
prvProcessProperties_AnyEndIsSuccess(doc) ==
    IF ~doc.versionOk
    THEN [xResult |-> "eAzureIoTErrorFailed", temperature |-> 0,
          versionSet |-> FALSE, version |-> 0, consumed |-> 0]
    ELSE LET r == ProcessEntries(doc, 1, 0)
         IN [xResult |-> "eAzureIoTSuccess",
             temperature |-> r.temperature,
             versionSet |-> TRUE, version |-> doc.version,
             consumed |-> r.consumed]

\* prvProcessProperties( pxMessage, xPropertyType, pxOutTemperature,
\* ulOutVersion ); versionSet: *ulOutVersion was written.
prvProcessProperties(doc) ==
    IF ~doc.versionOk
    THEN [xResult |-> "eAzureIoTErrorFailed", temperature |-> 0,
          versionSet |-> FALSE, version |-> 0, consumed |-> 0]
    ELSE LET r == ProcessEntries(doc, 1, 0)
         IN [xResult |-> IF r.xResult # "eAzureIoTErrorEndOfProperties"
                         THEN r.xResult ELSE "eAzureIoTSuccess",
             temperature |-> r.temperature,
             versionSet |-> TRUE, version |-> doc.version,
             consumed |-> r.consumed]

\* Outside a callback its locals do not exist: they are kept at fixed values.
NoUpdateFrame ==
    /\ xIncomingTemperature = 0
    /\ ulVersion = 0
    /\ xWasMaxTemperatureChanged = FALSE
    /\ xHandlerResult = "unset"

\* The callback has returned: its locals are gone.
PopUpdateFrame ==
    /\ xIncomingTemperature' = 0
    /\ ulVersion' = 0
    /\ xWasMaxTemperatureChanged' = FALSE
    /\ xHandlerResult' = "unset"

\* Mutant of prvHandlePropertyUpdate: the result of prvProcessProperties is
\* not tested.
prvHandlePropertyUpdate_AppliesOnFailure(doc) ==
    LET r == prvProcessProperties(doc)
    IN /\ xHandlerResult' = r.xResult
       /\ xIncomingTemperature' = r.temperature
       /\ ulVersion' = IF r.versionSet THEN r.version ELSE ulVersion
       /\ prvUpdateLocalProperties(r.temperature)
       /\ out' = <<TemperatureAck(r.temperature, r.version)>>
                   \o (IF xWasMaxTemperatureChanged'
                       THEN <<MaxTempReport(r.temperature)>>
                       ELSE <<>>)

\* Mutant of prvHandlePropertyUpdate: prvSendNewMaxTemp is called whatever
\* xWasMaxTemperatureChanged is.
prvHandlePropertyUpdate_AlwaysReports(doc) ==
    LET r == prvProcessProperties(doc)
    IN /\ xHandlerResult' = r.xResult
       /\ xIncomingTemperature' = r.temperature
       /\ ulVersion' = IF r.versionSet THEN r.version ELSE ulVersion
       /\ IF r.xResult = "eAzureIoTSuccess"
          THEN /\ prvUpdateLocalProperties(r.temperature)
               /\ out' = <<TemperatureAck(r.temperature, r.version),
                           MaxTempReport(r.temperature)>>
          ELSE /\ xWasMaxTemperatureChanged' = FALSE
               /\ out' = <<>>
               /\ UNCHANGED deviceVars

\* Mutant of prvHandlePropertyUpdate: a document whose version is not above
\* the last one acknowledged is dropped.
prvHandlePropertyUpdate_StaleVersionDropped(doc) ==
    LET r == prvProcessProperties(doc)
    IN /\ xHandlerResult' = r.xResult
       /\ xIncomingTemperature' = r.temperature
       /\ ulVersion' = IF r.versionSet THEN r.version ELSE ulVersion
       /\ IF r.xResult = "eAzureIoTSuccess"
             /\ r.version > session.ackedVersion
          THEN /\ prvUpdateLocalProperties(r.temperature)
               /\ out' = <<TemperatureAck(r.temperature, r.version)>>
                           \o (IF xWasMaxTemperatureChanged'
                               THEN <<MaxTempReport(r.temperature)>>
                               ELSE <<>>)
          ELSE /\ xWasMaxTemperatureChanged' = FALSE
               /\ out' = <<>>
               /\ UNCHANGED deviceVars

\* prvHandlePropertyUpdate( pxMessage )
prvHandlePropertyUpdate(doc) ==
    LET r == prvProcessProperties(doc)
    IN /\ xHandlerResult' = r.xResult
       /\ xIncomingTemperature' = r.temperature
       /\ ulVersion' = IF r.versionSet THEN r.version ELSE ulVersion
       /\ IF r.xResult = "eAzureIoTSuccess"
          THEN /\ prvUpdateLocalProperties(r.temperature)
               /\ out' = <<TemperatureAck(r.temperature, r.version)>>
                           \o (IF xWasMaxTemperatureChanged'
                               THEN <<MaxTempReport(r.temperature)>>
                               ELSE <<>>)
          ELSE /\ xWasMaxTemperatureChanged' = FALSE
               /\ out' = <<>>
               /\ UNCHANGED deviceVars

\* Mutant of prvHandleProperties: the answer to a reported property is
\* acknowledged like a temperature.
prvHandleProperties_ReportedAcknowledged(doc) ==
    /\ pc = "poll"
    /\ session.connected
    /\ "properties" \in subscribed
    /\ pc' = "callback_done"
    /\ IF doc.xMessageType = "eAzureIoTHubPropertiesReportedResponseMessage"
       THEN /\ out' = <<TemperatureAck(xDeviceCurrentTemperature, 1)>>
            /\ UNCHANGED <<deviceVars, updateVars, session>>
       ELSE /\ Len(applied) < MaxUpdates
            /\ IF doc.xMessageType = "eAzureIoTHubPropertiesGetMessage"
               THEN /\ session.getPending
                    /\ session' = [session EXCEPT !.getPending = FALSE]
               ELSE UNCHANGED session
            /\ prvHandlePropertyUpdate(doc)
    /\ last' = doc.xMessageType
    /\ UNCHANGED <<connectVars, ulStatus, xResult, pxMessage, buildVars,
                   caller, transport, subscribed, invocations, previous>>

\* prvHandleProperties( pxMessage, pvContext ), called inside
\* AzureIoTHubClient_ProcessLoop.  The answer to a GET comes once per request.
prvHandleProperties(doc) ==
    /\ pc = "poll"
    /\ session.connected
    /\ "properties" \in subscribed
    /\ pc' = "callback_done"
    /\ IF doc.xMessageType = "eAzureIoTHubPropertiesReportedResponseMessage"
       THEN /\ out' = <<>>
            /\ UNCHANGED <<deviceVars, updateVars, session>>
       ELSE /\ Len(applied) < MaxUpdates
            /\ IF doc.xMessageType = "eAzureIoTHubPropertiesGetMessage"
               THEN /\ session.getPending
                    /\ session' = [session EXCEPT !.getPending = FALSE]
               ELSE UNCHANGED session
            /\ prvHandlePropertyUpdate(doc)
    /\ last' = doc.xMessageType
    /\ UNCHANGED <<connectVars, ulStatus, xResult, pxMessage, buildVars,
                   caller, transport, subscribed, invocations, previous>>

(***************************************************************************)
(* prvAzureDemoTask and prvIoTHubInfoGet.                                  *)
(***************************************************************************)
\* A call on the hub session can succeed only over an open transport with
\* the session connected.
SessionResults == IF transport = "open" /\ session.connected
                  THEN BOOLEAN ELSE {FALSE}

\* configASSERT( AzureIoT_Init() == eAzureIoTSuccess ) and
\* prvSetupNetworkCredentials.
TaskStart ==
    /\ pc = "start"
    /\ \E ok \in BOOLEAN :
          pc' = AssertThen(ok, IF dpsEnabled THEN "dps_call" ELSE "task_call")
    /\ out' = <<>>
    /\ last' = "AzureIoT_Init"
    /\ UNCHANGED <<deviceVars, updateVars, connectVars, ulStatus, xResult,
                   pxMessage, buildVars, caller, hubVars, invocations,
                   previous>>

\* prvIoTHubInfoGet calls prvConnectToServerWithBackoffRetries.
DpsConnect ==
    /\ pc = "dps_call"
    /\ ConnectEnter("dps")

\* configASSERT( ulStatus == 0 ) in prvIoTHubInfoGet.
DpsAssertConnected ==
    /\ pc = "dps_assert"
    /\ pc' = AssertThen(ulStatus = 0, "dps_register")
    /\ out' = <<>>
    /\ last' = "configASSERT"
    /\ UNCHANGED <<deviceVars, updateVars, connectVars, ulStatus, xResult,
                   pxMessage, buildVars, caller, hubVars, invocations,
                   previous>>

\* The registration with the provisioning service (each result asserted),
\* then TLS_Socket_Disconnect and return 0.
DpsRegister ==
    /\ pc = "dps_register"
    /\ \E ok \in (IF transport = "open" THEN BOOLEAN ELSE {FALSE}) :
          /\ pc' = AssertThen(ok, "task_call")
          /\ IF AssertThen(ok, "task_call") = "halted"
             THEN UNCHANGED <<transport, ulStatus>>
             ELSE transport' = "closed" /\ ulStatus' = 0
    /\ out' = <<>>
    /\ last' = "AzureIoTProvisioningClient_Register"
    /\ UNCHANGED <<deviceVars, updateVars, connectVars, xResult, pxMessage,
                   buildVars, caller, session, subscribed, invocations,
                   previous>>

\* The top of the task's outer loop.
TaskConnect ==
    /\ pc = "task_call"
    /\ ConnectEnter("task")

\* configASSERT( ulStatus == 0 ) in prvAzureDemoTask.
TaskAssertConnected ==
    /\ pc = "task_assert"
    /\ pc' = AssertThen(ulStatus = 0, "hub_connect")
    /\ out' = <<>>
    /\ last' = "configASSERT"
    /\ UNCHANGED <<deviceVars, updateVars, connectVars, ulStatus, xResult,
                   pxMessage, buildVars, caller, hubVars, invocations,
                   previous>>

\* AzureIoTHubClient_OptionsInit, _Init, _SetSymmetricKey (local set-up),
\* then AzureIoTHubClient_Connect.
HubConnect ==
    /\ pc = "hub_connect"
    /\ \E ok \in (IF transport = "open" THEN BOOLEAN ELSE {FALSE}) :
          /\ session' = [connected |-> ok, getPending |-> FALSE,
                         getRequests |-> 0, ackedVersion |-> 0]
          /\ xResult' = IF ok THEN "eAzureIoTSuccess"
                               ELSE "eAzureIoTErrorFailed"
          /\ pc' = AssertThen(ok, "subscribe_command")
    /\ subscribed' = {}
    /\ out' = <<>>
    /\ last' = "AzureIoTHubClient_Connect"
    /\ UNCHANGED <<deviceVars, updateVars, connectVars, ulStatus, pxMessage, buildVars, caller, transport, invocations,
                   previous>>

\* AzureIoTHubClient_SubscribeCommand
SubscribeCommand ==
    /\ pc = "subscribe_command"
    /\ \E ok \in SessionResults :
          /\ subscribed' = IF ok THEN subscribed \cup {"command"}
                           ELSE subscribed
          /\ xResult' = IF ok THEN "eAzureIoTSuccess"
                               ELSE "eAzureIoTErrorFailed"
          /\ pc' = AssertThen(ok, "subscribe_properties")
    /\ out' = <<>>
    /\ last' = "AzureIoTHubClient_SubscribeCommand"
    /\ UNCHANGED <<deviceVars, updateVars, connectVars, ulStatus, pxMessage, buildVars, caller, transport, session,
                   invocations, previous>>

\* Mutant of SubscribeProperties: the task goes on to the telemetry without
\* the property request.
SubscribeProperties_SkipsRequest ==
    /\ pc = "subscribe_properties"
    /\ \E ok \in SessionResults :
          /\ subscribed' = IF ok THEN subscribed \cup {"properties"}
                           ELSE subscribed
          /\ xResult' = IF ok THEN "eAzureIoTSuccess"
                               ELSE "eAzureIoTErrorFailed"
          /\ pc' = AssertThen(ok, "telemetry")
    /\ out' = <<>>
    /\ last' = "AzureIoTHubClient_SubscribeProperties"
    /\ UNCHANGED <<deviceVars, updateVars, connectVars, ulStatus, pxMessage,
                   buildVars, caller, transport, session, invocations,
                   previous>>

\* AzureIoTHubClient_SubscribeProperties
SubscribeProperties ==
    /\ pc = "subscribe_properties"
    /\ \E ok \in SessionResults :
          /\ subscribed' = IF ok THEN subscribed \cup {"properties"}
                           ELSE subscribed
          /\ xResult' = IF ok THEN "eAzureIoTSuccess"
                               ELSE "eAzureIoTErrorFailed"
          /\ pc' = AssertThen(ok, "get_properties")
    /\ out' = <<>>
    /\ last' = "AzureIoTHubClient_SubscribeProperties"
    /\ UNCHANGED <<deviceVars, updateVars, connectVars, ulStatus, pxMessage, buildVars, caller, transport, session,
                   invocations, previous>>

\* AzureIoTHubClient_GetProperties
GetProperties ==
    /\ pc = "get_properties"
    /\ \E ok \in SessionResults :
          /\ session' = [session EXCEPT !.getPending = ok,
                                      !.getRequests = @ + 1]
          /\ xResult' = IF ok THEN "eAzureIoTSuccess"
                               ELSE "eAzureIoTErrorFailed"
          /\ pc' = AssertThen(ok, "telemetry")
    /\ out' = <<>>
    /\ last' = "AzureIoTHubClient_GetProperties"
    /\ UNCHANGED <<deviceVars, updateVars, connectVars, ulStatus, pxMessage, buildVars, caller, transport, subscribed,
                   invocations, previous>>

\* AzureIoTHubClient_SendTelemetry with the current temperature.
SendTelemetry ==
    /\ pc = "telemetry"
    /\ \E ok \in SessionResults :
          /\ xResult' = IF ok THEN "eAzureIoTSuccess"
                               ELSE "eAzureIoTErrorFailed"
          /\ pc' = AssertThen(ok, "max_temp")
    /\ out' = <<Telemetry(xDeviceCurrentTemperature)>>
    /\ last' = "AzureIoTHubClient_SendTelemetry"
    /\ UNCHANGED <<deviceVars, updateVars, connectVars, ulStatus, pxMessage, buildVars, caller, hubVars, invocations,
                   previous>>

\* Mutant of SendMaxTemp: the periodic report carries the current
\* temperature.
SendMaxTemp_ReportsCurrent ==
    /\ pc = "max_temp"
    /\ pc' = "poll"
    /\ out' = <<MaxTempReport(xDeviceCurrentTemperature)>>
    /\ last' = "prvSendNewMaxTemp"
    /\ UNCHANGED <<deviceVars, updateVars, connectVars, ulStatus, xResult,
                   pxMessage, buildVars, caller, hubVars, invocations,
                   previous>>

\* prvSendNewMaxTemp( xDeviceMaximumTemperature ); the result of the send is
\* logged only.
SendMaxTemp ==
    /\ pc = "max_temp"
    /\ pc' = "poll"
    /\ out' = <<MaxTempReport(xDeviceMaximumTemperature)>>
    /\ last' = "prvSendNewMaxTemp"
    /\ UNCHANGED <<deviceVars, updateVars, connectVars, ulStatus, xResult,
                   pxMessage, buildVars, caller, hubVars, invocations,
                   previous>>

\* The hub's side of the session once the publishes of the callback that
\* has returned are with it: the version of the last acknowledgment of a
\* temperature it was sent.
AckReceived ==
    IF out # <<>> /\ out[1].kind = "temperatureAck"
    THEN [session EXCEPT !.ackedVersion = out[1].version]
    ELSE session

\* A callback has returned into AzureIoTHubClient_ProcessLoop, which goes on
\* receiving.
ProcessLoopNext ==
    /\ pc = "callback_done"
    /\ pc' = "poll"
    /\ PopUpdateFrame
    /\ session' = AckReceived
    /\ out' = <<>>
    /\ last' = "receive"
    /\ UNCHANGED <<deviceVars, connectVars, ulStatus, xResult, pxMessage,
                   buildVars, caller, transport, subscribed, invocations,
                   previous>>

\* Mutant of ProcessLoopReturn: the poll returns to the task while
\* prvHandlePropertyUpdate is still at work.
ProcessLoopReturn_LeavesCallback ==
    /\ pc \in {"poll", "callback_done", "update_local", "ack", "report"}
    /\ \E ok \in SessionResults :
          /\ xResult' = IF ok THEN "eAzureIoTSuccess"
                               ELSE "eAzureIoTErrorFailed"
          /\ pc' = AssertThen(ok, "idle")
    /\ PopUpdateFrame
    /\ session' = AckReceived
    /\ out' = <<>>
    /\ last' = "AzureIoTHubClient_ProcessLoop"
    /\ UNCHANGED <<deviceVars, connectVars, ulStatus, pxMessage,
                   buildVars, caller, transport, subscribed, invocations,
                   previous>>

\* AzureIoTHubClient_ProcessLoop returns, after the callbacks it ran, and
\* its result is asserted.
ProcessLoopReturn ==
    /\ pc \in {"poll", "callback_done"}
    /\ \E ok \in SessionResults :
          /\ xResult' = IF ok THEN "eAzureIoTSuccess"
                               ELSE "eAzureIoTErrorFailed"
          /\ pc' = AssertThen(ok, "idle")
    /\ PopUpdateFrame
    /\ session' = AckReceived
    /\ out' = <<>>
    /\ last' = "AzureIoTHubClient_ProcessLoop"
    /\ UNCHANGED <<deviceVars, connectVars, ulStatus, pxMessage,
                   buildVars, caller, transport, subscribed, invocations,
                   previous>>

\* vTaskDelay( sampleazureiotDELAY_BETWEEN_PUBLISHES_TICKS ); the inner
\* for( ; ; ) has no exit, so the next step is the next telemetry.
Idle ==
    /\ pc = "idle"
    /\ pc' = "telemetry"
    /\ out' = <<>>
    /\ last' = "vTaskDelay"
    /\ UNCHANGED <<deviceVars, updateVars, connectVars, ulStatus, xResult,
                   pxMessage, buildVars, caller, hubVars, invocations,
                   previous>>

\* A command request arrives during the poll.
HandleCommand ==
    \E n \in CommandNames, p \in CommandPayloads, writerOk \in BOOLEAN :
        prvHandleCommand(n, p, writerOk)

\* A property message arrives during the poll.
HandleProperties ==
    \E doc \in PropertyDocuments : prvHandleProperties(doc)

(***************************************************************************)
(* The program.                                                            *)
(***************************************************************************)
Init ==
    /\ xDeviceCurrentTemperature = sampleazureiotDEFAULT_START_TEMP_CELSIUS
    /\ xDeviceMaximumTemperature = sampleazureiotDEFAULT_START_TEMP_CELSIUS
    /\ xDeviceMinimumTemperature = sampleazureiotDEFAULT_START_TEMP_CELSIUS
    /\ xDeviceTemperatureSummation = sampleazureiotDEFAULT_START_TEMP_CELSIUS
    /\ ulDeviceTemperatureCount = sampleazureiotDEFAULT_START_TEMP_COUNT
    /\ xDeviceAverageTemperature =
           <<sampleazureiotDEFAULT_START_TEMP_CELSIUS, 1>>
    /\ applied = <<>>
    /\ NoUpdateFrame
    /\ NoConnectFrame
    /\ invocations = 0
    /\ previous = "none"
    /\ ulStatus = 0
    /\ assertsEnabled \in BOOLEAN
    /\ dpsEnabled \in BOOLEAN
    /\ pc = "start"
    /\ caller = "none"
    /\ transport = "closed"
    /\ session = [connected |-> FALSE, getPending |-> FALSE,
                  getRequests |-> 0, ackedVersion |-> 0]
    /\ subscribed = {}
    /\ out = <<>>
    /\ last = "none"
    /\ xResult = "unset"
    /\ pxMessage = "none"

Next ==
    \/ TaskStart
    \/ DpsConnect
    \/ DpsAssertConnected
    \/ DpsRegister
    \/ TaskConnect
    \/ ConnectAttempt
    \/ ConnectBackoff
    \/ ConnectSleep
    \/ ConnectRetry
    \/ ConnectReturn
    \/ TaskAssertConnected
    \/ HubConnect
    \/ SubscribeCommand
    \/ SubscribeProperties
    \/ GetProperties
    \/ SendTelemetry
    \/ SendMaxTemp
    \/ HandleCommand
    \/ HandleProperties
    \/ ProcessLoopNext
    \/ ProcessLoopReturn
    \/ Idle

Spec == Init /\ [][Next]_vars

(***************************************************************************)
(* The backoff calls of prvConnectToServerWithBackoffRetries on their own: *)
(* the context is set up as the function sets it up and                    *)
(* BackoffAlgorithm_GetNextBackoff is called as the function calls it, but *)
(* also after it has answered exhausted, and the context may be set up     *)
(* again.                                                                  *)
(***************************************************************************)
BackoffInit ==
    /\ xDeviceCurrentTemperature = sampleazureiotDEFAULT_START_TEMP_CELSIUS
    /\ xDeviceMaximumTemperature = sampleazureiotDEFAULT_START_TEMP_CELSIUS
    /\ xDeviceMinimumTemperature = sampleazureiotDEFAULT_START_TEMP_CELSIUS
    /\ xDeviceTemperatureSummation = sampleazureiotDEFAULT_START_TEMP_CELSIUS
    /\ ulDeviceTemperatureCount = sampleazureiotDEFAULT_START_TEMP_COUNT
    /\ xDeviceAverageTemperature =
           <<sampleazureiotDEFAULT_START_TEMP_CELSIUS, 1>>
    /\ applied = <<>>
    /\ NoUpdateFrame
    /\ xNetworkStatus = "eTLSTransportConnectFailure"
    /\ xBackoffAlgStatus = "BackoffAlgorithmSuccess"
    /\ xReconnectParams = ReconnectParamsInit
    /\ usNextRetryBackOff = 0
    /\ nConnects = 0
    /\ nBackoffs = 0
    /\ nSleeps = 0
    /\ invocations = 1
    /\ previous = "none"
    /\ ulStatus = 0
    /\ assertsEnabled = TRUE
    /\ dpsEnabled = FALSE
    /\ pc = "backoff"
    /\ caller = "task"
    /\ transport = "closed"
    /\ session = [connected |-> FALSE, getPending |-> FALSE,
                  getRequests |-> 0, ackedVersion |-> 0]
    /\ subscribed = {}
    /\ out = <<>>
    /\ last = "prvConnectToServerWithBackoffRetries"
    /\ xResult = "unset"
    /\ pxMessage = "none"

\* One more BackoffAlgorithm_GetNextBackoff call.
BackoffCall ==
    /\ pc = "backoff"
    /\ nBackoffs < sampleazureiotRETRY_MAX_ATTEMPTS + MaxExtraCalls
    /\ CallGetNextBackoff
    /\ last' = "BackoffAlgorithm_GetNextBackoff"
    /\ UNCHANGED <<deviceVars, updateVars, xNetworkStatus, nConnects, nSleeps,
                   ulStatus, xResult, pxMessage, buildVars, pc, caller,
                   hubVars, out, invocations, previous>>

\* BackoffAlgorithm_InitializeParams is called again on the context.
BackoffRestart ==
    /\ pc = "backoff"
    /\ nBackoffs > 0
    /\ invocations <= MaxRestarts
    /\ xReconnectParams' = ReconnectParamsInit
    /\ xBackoffAlgStatus' = "BackoffAlgorithmSuccess"
    /\ nBackoffs' = 0
    /\ invocations' = invocations + 1
    /\ last' = "BackoffAlgorithm_InitializeParams"
    /\ UNCHANGED <<deviceVars, updateVars, xNetworkStatus, usNextRetryBackOff,
                   nConnects, nSleeps, ulStatus, xResult, pxMessage, buildVars,
                   pc, caller, hubVars, out, previous>>

BackoffNext == BackoffCall \/ BackoffRestart

SpecBackoff == BackoffInit /\ [][BackoffNext]_vars

(***************************************************************************)
(* The callbacks on their own: the task is in its first poll, connected    *)
(* and subscribed, and the hub has one message for it, a command request   *)
(* or a property message, which it may deliver more than once; a command   *)
(* request may follow the property message.                                *)
(***************************************************************************)
CommandRequests ==
    [pucCommandName : CommandNames, pvMessagePayload : CommandPayloads]

IsCommandRequest(m) == "pucCommandName" \in DOMAIN m

CallbackInit ==
    /\ xDeviceCurrentTemperature = sampleazureiotDEFAULT_START_TEMP_CELSIUS
    /\ xDeviceMaximumTemperature = sampleazureiotDEFAULT_START_TEMP_CELSIUS
    /\ xDeviceMinimumTemperature = sampleazureiotDEFAULT_START_TEMP_CELSIUS
    /\ xDeviceTemperatureSummation = sampleazureiotDEFAULT_START_TEMP_CELSIUS
    /\ ulDeviceTemperatureCount = sampleazureiotDEFAULT_START_TEMP_COUNT
    /\ xDeviceAverageTemperature =
           <<sampleazureiotDEFAULT_START_TEMP_CELSIUS, 1>>
    /\ applied = <<>>
    /\ NoUpdateFrame
    /\ NoConnectFrame
    /\ invocations = 1
    /\ previous = "connected"
    /\ ulStatus = 0
    /\ xResult = "eAzureIoTSuccess"
    /\ assertsEnabled \in BOOLEAN
    /\ dpsEnabled = FALSE
    /\ pc = "poll"
    /\ caller = "task"
    /\ transport = "open"
    /\ session = [connected |-> TRUE, getPending |-> TRUE,
                  getRequests |-> 1, ackedVersion |-> 0]
    /\ subscribed = {"command", "properties"}
    /\ out = <<MaxTempReport(sampleazureiotDEFAULT_START_TEMP_CELSIUS)>>
    /\ last = "prvSendNewMaxTemp"
    /\ pxMessage \in CommandRequests \cup PropertyDocumentsUpTo(MaxInputEntries)

\* The poll hands the command request to prvHandleCommand.
DeliverCommand ==
    /\ IsCommandRequest(pxMessage)
    /\ \E writerOk \in BOOLEAN :
          prvHandleCommand(pxMessage.pucCommandName,
                           pxMessage.pvMessagePayload, writerOk)

\* The poll hands the property message to prvHandleProperties.
DeliverProperties ==
    /\ ~IsCommandRequest(pxMessage)
    /\ prvHandleProperties(pxMessage)

\* The hub's next message, after the property message, is a command request.
HubSendsCommand ==
    /\ pc = "poll"
    /\ ~IsCommandRequest(pxMessage)
    /\ pxMessage' \in CommandRequests
    /\ UNCHANGED <<deviceVars, updateVars, connectVars, ulStatus, xResult,
                   buildVars, pc, caller, hubVars, out, last, invocations,
                   previous>>

CallbackNext ==
    \/ DeliverCommand
    \/ DeliverProperties
    \/ ProcessLoopNext
    \/ HubSendsCommand

SpecCallback == CallbackInit /\ [][CallbackNext]_vars

(***************************************************************************)
(* Properties.                                                             *)
(***************************************************************************)
Exhausted == xBackoffAlgStatus = "BackoffAlgorithmRetriesExhausted"
Connected == xNetworkStatus = "eTLSTransportSuccess"
Returned == pc \in {"dps_assert", "task_assert"}

\* C1: after every prvUpdateLocalProperties call, whatever the values applied
\* since the start (where current = minimum = maximum = the start value),
\* minimum <= current <= maximum.
C1_MinimumCurrentMaximum ==
    /\ xDeviceMinimumTemperature <= xDeviceCurrentTemperature
    /\ xDeviceCurrentTemperature <= xDeviceMaximumTemperature

\* C1 witness: updates were applied and left the current value strictly
\* between the minimum and the maximum.
C1_Witness ==
    /\ Len(applied) >= 2
    /\ xDeviceMinimumTemperature < xDeviceCurrentTemperature
    /\ xDeviceCurrentTemperature < xDeviceMaximumTemperature

\* C2: after n updates with values v1..vn the count is 1 + n, the sum is the
\* start value plus v1 + ... + vn, and the average is that sum divided by
\* that count (so each update adds 1 to the count and its value to the sum).
C2_CountSumAverage ==
    /\ ulDeviceTemperatureCount =
           sampleazureiotDEFAULT_START_TEMP_COUNT + Len(applied)
    /\ xDeviceTemperatureSummation =
           sampleazureiotDEFAULT_START_TEMP_CELSIUS + SumSeq(applied)
    /\ xDeviceAverageTemperature =
           Quotient(sampleazureiotDEFAULT_START_TEMP_CELSIUS + SumSeq(applied),
                    1 + Len(applied))

\* C2 witness: two updates with different values were applied and the
\* average is no whole number.
C2_Witness ==
    /\ Len(applied) >= 2
    /\ applied[1] # applied[2]
    /\ xDeviceAverageTemperature[2] > 1

\* C3: an update whose value is strictly greater than the maximum before it
\* reports that the maximum changed, makes the value the maximum and leaves
\* the minimum as it was.
C3_AboveMaximum ==
    [][(/\ Len(applied') = Len(applied) + 1
        /\ xDeviceCurrentTemperature' > xDeviceMaximumTemperature)
         => (/\ xWasMaxTemperatureChanged'
             /\ xDeviceMaximumTemperature' = xDeviceCurrentTemperature'
             /\ xDeviceMinimumTemperature' = xDeviceMinimumTemperature)]_vars

\* C3 witness: an update has just raised the maximum, in a state where the
\* minimum is lower than the start value (so minimum, start value and maximum
\* all differ).
C3_Witness ==
    /\ pc = "callback_done"
    /\ xWasMaxTemperatureChanged
    /\ Len(applied) >= 2
    /\ xDeviceMaximumTemperature = applied[Len(applied)]
    /\ xDeviceMinimumTemperature < sampleazureiotDEFAULT_START_TEMP_CELSIUS

\* C4: a BackoffAlgorithm_GetNextBackoff call on the context the function
\* sets up never gives a delay above sampleazureiotRETRY_MAX_BACKOFF_DELAY_MS;
\* the first sampleazureiotRETRY_MAX_ATTEMPTS calls after the set-up answer
\* success with a delay and count the attempt, every later call answers
\* exhausted, leaves the delay as it was and does not count.
C4_NextBackoff ==
    [][nBackoffs' = nBackoffs + 1
         => IF nBackoffs' <= sampleazureiotRETRY_MAX_ATTEMPTS
            THEN /\ xBackoffAlgStatus' = "BackoffAlgorithmSuccess"
                 /\ usNextRetryBackOff'
                      <= sampleazureiotRETRY_MAX_BACKOFF_DELAY_MS
                 /\ xReconnectParams'.attemptCount
                      = xReconnectParams.attemptCount + 1
            ELSE /\ xBackoffAlgStatus' = "BackoffAlgorithmRetriesExhausted"
                 /\ usNextRetryBackOff' = usNextRetryBackOff
                 /\ xReconnectParams'.attemptCount
                      = xReconnectParams.attemptCount]_vars

\* C4 witness: after a second set-up, a call after the first exhausted answer
\* has answered exhausted again, the last delay being the largest allowed.
C4_Witness ==
    /\ invocations >= 2
    /\ nBackoffs > sampleazureiotRETRY_MAX_ATTEMPTS + 1
    /\ Exhausted
    /\ usNextRetryBackOff = sampleazureiotRETRY_MAX_BACKOFF_DELAY_MS

\* C5: in every state of a prvConnectToServerWithBackoffRetries call the
\* attempt count of the backoff context is at most
\* sampleazureiotRETRY_MAX_ATTEMPTS, the maximum the context was given.
C5_AttemptCountBounded ==
    InConnect =>
        /\ xReconnectParams.maxAttempts = sampleazureiotRETRY_MAX_ATTEMPTS
        /\ xReconnectParams.attemptCount <= sampleazureiotRETRY_MAX_ATTEMPTS

\* C5 witness: a call in which the attempt count has reached the maximum and
\* another connect has failed.
C5_Witness ==
    /\ pc = "backoff"
    /\ xReconnectParams.attemptCount = sampleazureiotRETRY_MAX_ATTEMPTS

\* C6: in a call in which every connect fails, when the backoff answers
\* exhausted there have been sampleazureiotRETRY_MAX_ATTEMPTS + 1 connects and
\* as many backoff calls, and exactly sampleazureiotRETRY_MAX_ATTEMPTS (five)
\* delays; no call ever takes more delays than that, and every delay taken is
\* at most sampleazureiotRETRY_MAX_BACKOFF_DELAY_MS.
C6_FiveDelaysThenExhausted ==
    InConnect =>
        /\ nSleeps <= sampleazureiotRETRY_MAX_ATTEMPTS
        /\ pc = "sleep" =>
              usNextRetryBackOff <= sampleazureiotRETRY_MAX_BACKOFF_DELAY_MS
        /\ Exhausted =>
              /\ nSleeps = 5
              /\ nSleeps = sampleazureiotRETRY_MAX_ATTEMPTS
              /\ nBackoffs = sampleazureiotRETRY_MAX_ATTEMPTS + 1
              /\ nConnects = sampleazureiotRETRY_MAX_ATTEMPTS + 1

\* C6 witness: the sixth backoff call of a call has answered exhausted after
\* five delays, the last of them the largest allowed.
C6_Witness ==
    /\ pc = "loop_cond"
    /\ Exhausted
    /\ nSleeps = 5
    /\ nBackoffs = 6
    /\ usNextRetryBackOff = sampleazureiotRETRY_MAX_BACKOFF_DELAY_MS

\* C7: once the backoff has answered exhausted, the call is at the end of
\* its loop, and its next step is the return of the failure result 1: no
\* delay and no connect follows in that call.
C7_ExhaustedReturnsAtOnce ==
    [][/\ Exhausted' => pc' = "loop_cond"
       /\ Exhausted => /\ Returned'
                       /\ ulStatus' = 1
                       /\ last' = "return"]_vars

\* C7 witness: a call has returned 1 after the backoff answered exhausted.
C7_Witness ==
    /\ Returned
    /\ last = "return"
    /\ previous = "exhausted"
    /\ ulStatus = 1

\* C8: the call returns 0 exactly if its last connect succeeded (the
\* transport is open), and it returns non-zero only after the backoff
\* answered exhausted; once a connect has succeeded the next step of the call
\* is the return, with no further connect, backoff call or delay.
C8_ReturnsLastConnectResult ==
    [][/\ (InConnect /\ Returned') =>
            /\ ulStatus' = 0 <=> Connected
            /\ ulStatus' = 0 <=> transport = "open"
            /\ ulStatus' # 0 => Exhausted
       /\ (InConnect /\ Connected) => Returned']_vars

\* C8 witness: a call has returned 0 after a successful connect, the
\* transport open.
C8_Witness ==
    /\ Returned
    /\ last = "return"
    /\ ulStatus = 0
    /\ transport = "open"
    /\ previous = "connected"

\* C9: every call starts with a backoff context whose attempt count is 0 and
\* whose maximum is sampleazureiotRETRY_MAX_ATTEMPTS, and the attempt count
\* during the call counts the successful backoff calls of that call only,
\* however the call before it ended: exhausted is answered only by call
\* number sampleazureiotRETRY_MAX_ATTEMPTS + 1 of the same call.
C9_FreshBackoffStatePerCall ==
    InConnect =>
        /\ xReconnectParams.maxAttempts = sampleazureiotRETRY_MAX_ATTEMPTS
        /\ nConnects = 0 => xReconnectParams.attemptCount = 0
        /\ xReconnectParams.attemptCount
             = IF Exhausted THEN nBackoffs - 1 ELSE nBackoffs
        /\ Exhausted <=> nBackoffs > sampleazureiotRETRY_MAX_ATTEMPTS

\* C9 witness: the second call, after a first call that ended exhausted, has
\* itself used all its retries before the backoff answers exhausted.
C9_Witness ==
    /\ invocations = 2
    /\ previous = "exhausted"
    /\ pc = "backoff"
    /\ nBackoffs = sampleazureiotRETRY_MAX_ATTEMPTS
    /\ xReconnectParams.attemptCount = sampleazureiotRETRY_MAX_ATTEMPTS

\* C10: every command request handed to prvHandleCommand is answered by
\* exactly one command response, with code 200, 404 or 501.
C10_OneResponsePerCommand ==
    last = "prvHandleCommand" =>
        /\ Len(out) = 1
        /\ out[1].kind = "commandResponse"
        /\ out[1].code \in {200, 404, 501}

(***************************************************************************)
(* Properties of the callbacks.                                            *)
(***************************************************************************)
\* The property messages that prvHandleProperties hands to
\* prvHandlePropertyUpdate.
PropertyUpdateMessages ==
    {"eAzureIoTHubPropertiesGetMessage",
     "eAzureIoTHubPropertiesWritablePropertyMessage"}

\* prvHandlePropertyUpdate has just run to its end.
AfterPropertyUpdate ==
    pc = "callback_done" /\ last \in PropertyUpdateMessages

\* The entry is one prvProcessProperties reads the temperature from.
IsWritableEntry(e) ==
    /\ e.componentNameLength = 0
    /\ e.name = sampleazureiotPROPERTY_TARGET_TEMPERATURE_TEXT

\* The current, maximum, minimum, sum, count and average of the device.
PropertyModel ==
    <<xDeviceCurrentTemperature, xDeviceMaximumTemperature,
      xDeviceMinimumTemperature, xDeviceTemperatureSummation,
      ulDeviceTemperatureCount, xDeviceAverageTemperature>>

\* C11: a command request whose name is not the known name (shorter, longer,
\* different in case or content) is answered 404 with the empty body and
\* prvInvokeMaxMinCommand is not called; a request with the known name is
\* never answered 404 and is the only one to reach prvInvokeMaxMinCommand.
C11_UnknownNameAnswered404 ==
    last = "prvHandleCommand" =>
        IF pxMessage.pucCommandName = sampleazureiotCOMMAND_MAX_MIN_REPORT
        THEN /\ xHandlerResult # "unset"
             /\ \A i \in 1..Len(out) : out[i].code # 404
        ELSE /\ pc = "callback_done"
             /\ xHandlerResult = "unset"
             /\ out = <<CommandResponse(404,
                                        sampleazureiotCOMMAND_EMPTY_PAYLOAD)>>

\* C11 witness: a request whose name is the known name with one more
\* character was answered 404.
C11_Witness ==
    /\ last = "prvHandleCommand"
    /\ Len(pxMessage.pucCommandName)
         > Len(sampleazureiotCOMMAND_MAX_MIN_REPORT)
    /\ SubSeq(pxMessage.pucCommandName, 1,
              Len(sampleazureiotCOMMAND_MAX_MIN_REPORT))
         = sampleazureiotCOMMAND_MAX_MIN_REPORT
    /\ out = <<CommandResponse(404, sampleazureiotCOMMAND_EMPTY_PAYLOAD)>>

OneWritableAmongUnknown(doc) ==
    LET es == doc.entries
    IN /\ doc.versionOk
       /\ doc.endOfProperties
       /\ Cardinality({i \in 1..Len(es) : IsWritableEntry(es[i])}) = 1
       /\ \A i \in 1..Len(es) : IsWritableEntry(es[i]) => es[i].isNumber
       /\ \E i \in 1..Len(es) : es[i].componentNameLength > 0
       /\ \E i \in 1..Len(es) :
             /\ es[i].componentNameLength = 0
             /\ es[i].name # sampleazureiotPROPERTY_TARGET_TEMPERATURE_TEXT

\* C13: for a document with one writable targetTemperature entry and
\* entries the device does not know (one under a component, one of another
\* name), in any order, prvProcessProperties succeeds with the value of the
\* writable entry and the version of the document, having gone past every
\* entry.
C13_UnknownEntriesSkipped ==
    (AfterPropertyUpdate /\ OneWritableAmongUnknown(pxMessage)) =>
        LET es == pxMessage.entries
            w == CHOOSE i \in 1..Len(es) : IsWritableEntry(es[i])
        IN /\ xHandlerResult = "eAzureIoTSuccess"
           /\ xIncomingTemperature = es[w].value
           /\ ulVersion = pxMessage.version
           /\ prvProcessProperties(pxMessage).consumed = Len(es)
           /\ xDeviceCurrentTemperature = es[w].value

\* C13 witness: the writable entry stood between an entry under a component
\* that has the writable property's name and an entry of another name.
C13_Witness ==
    /\ AfterPropertyUpdate
    /\ OneWritableAmongUnknown(pxMessage)
    /\ Len(pxMessage.entries) = 3
    /\ pxMessage.entries[1].componentNameLength > 0
    /\ pxMessage.entries[1].name
         = sampleazureiotPROPERTY_TARGET_TEMPERATURE_TEXT
    /\ IsWritableEntry(pxMessage.entries[2])
    /\ xIncomingTemperature = 25
    /\ applied = <<25>>

\* C14: prvProcessProperties returns success exactly if the version was read
\* and the loop over the entries ended with end-of-properties, that is, no
\* writable entry held a value that is no number and the iterator did not
\* end with another error; otherwise it returns an error.
C14_SuccessIffEndOfProperties ==
    AfterPropertyUpdate =>
        LET es == pxMessage.entries
            mismatch == \E i \in 1..Len(es) :
                            IsWritableEntry(es[i]) /\ ~es[i].isNumber
        IN /\ xHandlerResult = "eAzureIoTSuccess"
                <=> /\ pxMessage.versionOk
                    /\ ~mismatch
                    /\ pxMessage.endOfProperties
           /\ xHandlerResult # "eAzureIoTSuccess"
                => xHandlerResult \in {"eAzureIoTErrorFailed",
                                       "eAzureIoTErrorInvalidResponse"}

\* C14 witness: the version was read and a writable entry was read, then the
\* iterator ended with an error that is not end-of-properties.
C14_Witness ==
    /\ AfterPropertyUpdate
    /\ pxMessage.versionOk
    /\ ~pxMessage.endOfProperties
    /\ Len(pxMessage.entries) = 1
    /\ IsWritableEntry(pxMessage.entries[1])
    /\ xIncomingTemperature = pxMessage.entries[1].value
    /\ xHandlerResult = "eAzureIoTErrorFailed"

\* C15: a prvHandlePropertyUpdate call in which prvProcessProperties fails
\* leaves current, maximum, minimum, sum, count and average as they were and
\* sends neither an acknowledgment nor a maximum-temperature report.
C15_FailureChangesNothing ==
    [][(/\ pc = "poll"
        /\ pc' = "callback_done"
        /\ last' \in PropertyUpdateMessages
        /\ xHandlerResult' # "eAzureIoTSuccess")
         => /\ PropertyModel' = PropertyModel
            /\ applied' = applied
            /\ out' = <<>>]_vars

\* C15 witness: a writable entry with the number 25 was read, the next
\* writable entry held no number, and the device values are the start values.
C15_Witness ==
    /\ AfterPropertyUpdate
    /\ xHandlerResult = "eAzureIoTErrorInvalidResponse"
    /\ Len(pxMessage.entries) = 2
    /\ xIncomingTemperature = 25
    /\ xDeviceCurrentTemperature = sampleazureiotDEFAULT_START_TEMP_CELSIUS
    /\ out = <<>>

\* C16: after a prvHandlePropertyUpdate call in which prvProcessProperties
\* succeeded, exactly one acknowledgment was sent, first of all, with status
\* 200, the version of the document handled and the value now current.
C16_OneAcknowledgment ==
    (AfterPropertyUpdate /\ xHandlerResult = "eAzureIoTSuccess") =>
        /\ Cardinality({i \in 1..Len(out) :
                           out[i].kind = "temperatureAck"}) = 1
        /\ out[1].kind = "temperatureAck"
        /\ out[1].code = 200
        /\ out[1].code = sampleazureiotPROPERTY_STATUS_SUCCESS
        /\ out[1].version = pxMessage.version
        /\ out[1].value = xDeviceCurrentTemperature
        /\ out[1].value = applied[Len(applied)]

\* C16 witness: a document of version 2 with the value 20 was acknowledged.
C16_Witness ==
    /\ AfterPropertyUpdate
    /\ xHandlerResult = "eAzureIoTSuccess"
    /\ pxMessage.version = 2
    /\ out[1].version = 2
    /\ out[1].value = 20

\* C17: a successful property update sends the acknowledgment, and after it
\* a maximum-temperature report exactly if the update set the flag, which it
\* does exactly if the value is strictly greater than the maximum before.
C17_ReportIffMaxChanged ==
    [][(/\ pc = "poll"
        /\ pc' = "callback_done"
        /\ last' \in PropertyUpdateMessages
        /\ xHandlerResult' = "eAzureIoTSuccess")
         => /\ out'[1].kind = "temperatureAck"
            /\ xWasMaxTemperatureChanged'
                 <=> xIncomingTemperature' > xDeviceMaximumTemperature
            /\ IF xWasMaxTemperatureChanged'
               THEN /\ Len(out') = 2
                    /\ out'[2].kind = "maxTempReport"
                    /\ out'[2].value = xIncomingTemperature'
               ELSE Len(out') = 1]_vars

\* C17 witness: an update whose value equals the maximum before it was
\* acknowledged and no report was sent.
C17_Witness ==
    /\ AfterPropertyUpdate
    /\ xHandlerResult = "eAzureIoTSuccess"
    /\ Len(applied) >= 2
    /\ applied[Len(applied) - 1] = xDeviceMaximumTemperature
    /\ xIncomingTemperature = xDeviceMaximumTemperature
    /\ ~xWasMaxTemperatureChanged
    /\ Len(out) = 1

\* C18: from the start values (22, count 1), the update with 25 makes the
\* maximum 25, sets the flag, and sends the acknowledgment with the version
\* read and the report of 25; the update with 20 after it makes the minimum
\* 20, leaves the maximum 25, sends the acknowledgment only, and leaves the
\* count 3, the sum 67 and the average 67/3.
C18_TwoUpdates ==
    (AfterPropertyUpdate /\ xHandlerResult = "eAzureIoTSuccess") =>
        /\ applied = <<25>> =>
              /\ xDeviceMaximumTemperature = 25
              /\ xDeviceMinimumTemperature = 22
              /\ xWasMaxTemperatureChanged
              /\ Len(out) = 2
              /\ out[1].kind = "temperatureAck"
              /\ out[1].version = ulVersion
              /\ out[1].value = 25
              /\ out[2].kind = "maxTempReport"
              /\ out[2].value = 25
        /\ applied = <<25, 20>> =>
              /\ xDeviceMinimumTemperature = 20
              /\ xDeviceMaximumTemperature = 25
              /\ ~xWasMaxTemperatureChanged
              /\ Len(out) = 1
              /\ out[1].kind = "temperatureAck"
              /\ out[1].value = 20
              /\ ulDeviceTemperatureCount = 3
              /\ xDeviceTemperatureSummation = 67
              /\ xDeviceAverageTemperature = <<67, 3>>

\* C18 witness: 25 and then 20 were applied.
C18_Witness ==
    /\ AfterPropertyUpdate
    /\ xHandlerResult = "eAzureIoTSuccess"
    /\ applied = <<25, 20>>
    /\ xDeviceAverageTemperature = <<67, 3>>
    /\ Len(out) = 1

(***************************************************************************)
(* Properties of the task's loops.                                         *)
(***************************************************************************)
\* The task takes every step it can take: it is never suspended for good
\* while a step is possible (every call it makes returns).
SpecLive == Spec /\ WF_vars(Next)

\* The positions inside the inner for( ; ; ) of prvAzureDemoTask.
StreamingPcs == {"telemetry", "max_temp", "poll", "callback_done", "idle"}

\* The last step was a telemetry publish or a poll, and it failed.
StreamingFailed ==
    /\ last \in {"AzureIoTHubClient_SendTelemetry",
                 "AzureIoTHubClient_ProcessLoop"}
    /\ xResult = "eAzureIoTErrorFailed"

\* C19: a step of the inner loop in which the telemetry publish or the poll
\* fails takes the task out of the inner loop to the unsubscribe and
\* disconnect calls after it: the task neither goes on with the next step of
\* the inner loop nor stops.
C19_FailureLeavesStreaming ==
    [][StreamingFailed' => pc' \notin StreamingPcs \cup {"halted"}]_vars

\* C20: after a failed telemetry publish or poll the task eventually calls
\* prvConnectToServerWithBackoffRetries again.
C20_FailureLeadsToReconnect ==
    StreamingFailed ~> (last = "prvConnectToServerWithBackoffRetries")

\* The calls whose result is a failure of the network or of the protocol
\* with the hub.
NetworkCalls ==
    {"AzureIoTHubClient_Connect", "AzureIoTHubClient_SubscribeCommand",
     "AzureIoTHubClient_SubscribeProperties",
     "AzureIoTHubClient_GetProperties", "AzureIoTHubClient_SendTelemetry",
     "AzureIoTHubClient_ProcessLoop"}

\* prvConnectToServerWithBackoffRetries has returned its failure to the task.
ExhaustionReported == pc = "task_assert" /\ ulStatus # 0

\* C21: when the connect function has reported to the task that the retries
\* are used up, the task's next step neither stops it for good nor goes on to
\* connect the hub session: it idles and starts the outer loop again.
C21_ExhaustionRestarts ==
    [][ExhaustionReported =>
          /\ pc' \notin {"halted", "hub_connect"}
          /\ last' = "vTaskDelay"]_vars

\* C22: the task never halts on the failure of a network or protocol step:
\* the transport connect that used up its retries, the session connect, a
\* subscribe, the property request, a publish or the poll.
C22_NoHaltOnNetworkFailure ==
    [][(pc # "halted" /\ pc' = "halted") =>
          /\ ~(last' = "configASSERT" /\ ulStatus # 0)
          /\ ~(last' \in NetworkCalls /\ xResult' = "eAzureIoTErrorFailed")]_vars

\* The step is a run of prvHandleCommand that answers with the given code.
CommandAnswered(codes) ==
    /\ pc = "poll"
    /\ last' = "prvHandleCommand"
    /\ out' # <<>>
    /\ out'[1].code \in codes

\* C23: a command request answered 501 (the handler failed) or 404 (the name
\* is not known) stops nothing: the callback returns into the poll, the
\* transport, the session and the subscriptions are as before, and the
\* current, maximum, minimum, sum, count and average are unchanged.
C23_CommandFailureNotFatal ==
    [][CommandAnswered({404, 501}) =>
          /\ pc' = "callback_done"
          /\ PropertyModel' = PropertyModel
          /\ applied' = applied
          /\ UNCHANGED <<transport, session, subscribed>>]_vars

\* A request is answered 501 after two property updates, and the task is in
\* the poll.
C23_Witness ==
    /\ pc = "callback_done"
    /\ last = "prvHandleCommand"
    /\ out # <<>>
    /\ out[1].code = 501
    /\ Len(applied) >= 2
    /\ session.connected

C25_OnlyPropertyUpdatesWrite ==
    [][/\ (PropertyModel' # PropertyModel \/ applied' # applied) =>
             /\ pc = "poll"
             /\ last' \in PropertyUpdateMessages
             /\ xHandlerResult' = "eAzureIoTSuccess"
       /\ (pc = "poll"
             /\ last' = "eAzureIoTHubPropertiesReportedResponseMessage") =>
             /\ out' = <<>>
             /\ PropertyModel' = PropertyModel]_vars

\* The answer to a reported property has been handled after an update had
\* changed the values.
C25_Witness ==
    /\ pc = "callback_done"
    /\ last = "eAzureIoTHubPropertiesReportedResponseMessage"
    /\ out = <<>>
    /\ Len(applied) >= 1
    /\ xDeviceMaximumTemperature > xDeviceMinimumTemperature

\* C26: every value applied to the device values is the number of a
\* recognized writable entry of the document handled; a document read with
\* success that has no such entry leaves the current, maximum, minimum, sum,
\* count and average as they were.
C26_AppliedValueIsInDocument ==
    ~IsCommandRequest(pxMessage) =>
        \A k \in 1..Len(applied) :
            \E i \in 1..Len(pxMessage.entries) :
                /\ IsWritableEntry(pxMessage.entries[i])
                /\ pxMessage.entries[i].isNumber
                /\ pxMessage.entries[i].value = applied[k]

\* The places of the recognized writable entries in the document.
WritableEntries(doc) ==
    {i \in 1..Len(doc.entries) : IsWritableEntry(doc.entries[i])}

\* The number of the last recognized writable entry of the document.
LastWritableValue(doc) ==
    LET i == CHOOSE i \in WritableEntries(doc) :
                 \A j \in WritableEntries(doc) : j <= i
    IN doc.entries[i].value

\* The step is a run of prvHandlePropertyUpdate that reads the document with
\* success.
PropertyUpdateSucceeds ==
    /\ pc = "poll"
    /\ pc' = "callback_done"
    /\ last' \in PropertyUpdateMessages
    /\ xHandlerResult' = "eAzureIoTSuccess"

\* C27: a document read with success that has several recognized writable
\* entries is one update with the number of the last of them: that number is
\* the new current temperature, the count grows by one and the sum by that
\* number, and the maximum and the minimum move only as that number moves
\* them, whatever the earlier entries held.
C27_LastWritableEntryWins ==
    [][(/\ PropertyUpdateSucceeds
        /\ ~IsCommandRequest(pxMessage)
        /\ Cardinality(WritableEntries(pxMessage)) >= 2) =>
          LET v == LastWritableValue(pxMessage)
          IN /\ xIncomingTemperature' = v
             /\ applied' = Append(applied, v)
             /\ xDeviceCurrentTemperature' = v
             /\ ulDeviceTemperatureCount' = ulDeviceTemperatureCount + 1
             /\ xDeviceTemperatureSummation' =
                    xDeviceTemperatureSummation + v
             /\ xDeviceMaximumTemperature' =
                    IF v > xDeviceMaximumTemperature
                    THEN v ELSE xDeviceMaximumTemperature
             /\ xDeviceMinimumTemperature' =
                    IF v > xDeviceMaximumTemperature
                    THEN xDeviceMinimumTemperature
                    ELSE Min(v, xDeviceMinimumTemperature)]_vars

\* A document whose first writable entry is above the maximum and whose last
\* is below the minimum has been applied: the maximum is the initial one.
C27_Witness ==
    /\ AfterPropertyUpdate
    /\ xHandlerResult = "eAzureIoTSuccess"
    /\ ~IsCommandRequest(pxMessage)
    /\ Len(pxMessage.entries) >= 2
    /\ IsWritableEntry(pxMessage.entries[1])
    /\ pxMessage.entries[1].value > sampleazureiotDEFAULT_START_TEMP_CELSIUS
    /\ Cardinality(WritableEntries(pxMessage)) >= 2
    /\ applied = <<LastWritableValue(pxMessage)>>
    /\ xDeviceCurrentTemperature < sampleazureiotDEFAULT_START_TEMP_CELSIUS
    /\ xDeviceMaximumTemperature = sampleazureiotDEFAULT_START_TEMP_CELSIUS
    /\ ulDeviceTemperatureCount = 2

\* C28: a document read with success whose version is not above the version
\* of the last document acknowledged is applied like any other: its
\* temperature becomes the current one and is counted, and the acknowledgment
\* carries the document's own version.
C28_StaleVersionApplied ==
    [][(PropertyUpdateSucceeds /\ ulVersion' <= session.ackedVersion) =>
          /\ applied' = Append(applied, xIncomingTemperature')
          /\ xDeviceCurrentTemperature' = xIncomingTemperature'
          /\ ulDeviceTemperatureCount' = ulDeviceTemperatureCount + 1
          /\ out' # <<>>
          /\ out'[1].kind = "temperatureAck"
          /\ out'[1].version = ulVersion'
          /\ out'[1].value = xIncomingTemperature']_vars

\* A document with a version below the last one acknowledged has been
\* applied, and it has changed the current temperature.
C28_Witness ==
    /\ AfterPropertyUpdate
    /\ xHandlerResult = "eAzureIoTSuccess"
    /\ ulVersion < session.ackedVersion
    /\ Len(applied) >= 2
    /\ applied[Len(applied)] = xIncomingTemperature
    /\ applied[Len(applied) - 1] # xIncomingTemperature
    /\ xDeviceCurrentTemperature = xIncomingTemperature
    /\ out[1].version = ulVersion

\* C29: one call of prvUpdateLocalProperties changes the maximum or the
\* minimum or neither, never both: the maximum exactly if the value is above
\* the maximum before, to that value; the minimum exactly if the value is not
\* above the maximum before and is below the minimum before, to that value;
\* and the flag it hands back is set exactly if the maximum changed (a value
\* equal to the maximum before leaves the flag unset).
C29_MaximumOrMinimum ==
    [][Len(applied') = Len(applied) + 1 =>
          LET v == applied'[Len(applied')]
              maxChanged ==
                  xDeviceMaximumTemperature' # xDeviceMaximumTemperature
              minChanged ==
                  xDeviceMinimumTemperature' # xDeviceMinimumTemperature
          IN /\ ~(maxChanged /\ minChanged)
             /\ maxChanged <=> v > xDeviceMaximumTemperature
             /\ maxChanged => xDeviceMaximumTemperature' = v
             /\ minChanged <=> (/\ v <= xDeviceMaximumTemperature
                                /\ v < xDeviceMinimumTemperature)
             /\ minChanged => xDeviceMinimumTemperature' = v
             /\ xWasMaxTemperatureChanged' <=> maxChanged
             /\ v = xDeviceMaximumTemperature =>
                    ~xWasMaxTemperatureChanged']_vars

\* After the maximum was raised and the minimum lowered, a value equal to the
\* maximum has been applied: both are as before and the flag is unset.
C29_Witness ==
    /\ AfterPropertyUpdate
    /\ xHandlerResult = "eAzureIoTSuccess"
    /\ Len(applied) = 3
    /\ applied[1] > sampleazureiotDEFAULT_START_TEMP_CELSIUS
    /\ applied[2] < sampleazureiotDEFAULT_START_TEMP_CELSIUS
    /\ applied[3] = applied[1]
    /\ xDeviceMaximumTemperature = applied[1]
    /\ xDeviceMinimumTemperature = applied[2]
    /\ ~xWasMaxTemperatureChanged

\* prvHandleCommand has just answered a request with 200.
CommandSucceeded ==
    /\ pc = "callback_done"
    /\ last = "prvHandleCommand"
    /\ out # <<>>
    /\ out[1].code = 200

\* C30: the body of a 200 response holds, in this order, the maximum, the
\* minimum and the average the device has when the request is handled (the
\* average being the sum over the count of everything applied until then),
\* the start time as the request's payload gave it, and the fixed end time;
\* it is the only message of the step.
C30_ReportBody ==
    CommandSucceeded =>
        /\ Len(out) = 1
        /\ out[1].kind = "commandResponse"
        /\ Len(out[1].payload) = 5
        /\ out[1].payload[1] = <<"maxTemp", xDeviceMaximumTemperature>>
        /\ out[1].payload[2] = <<"minTemp", xDeviceMinimumTemperature>>
        /\ out[1].payload[3] = <<"avgTemp", xDeviceAverageTemperature>>
        /\ xDeviceAverageTemperature =
               Quotient(sampleazureiotDEFAULT_START_TEMP_CELSIUS
                          + SumSeq(applied), 1 + Len(applied))
        /\ out[1].payload[4][1] = "startTime"
        /\ pxMessage.pvMessagePayload.kind = "string" =>
               out[1].payload[4][2] = pxMessage.pvMessagePayload.text
        /\ out[1].payload[5] =
               <<"endTime", sampleazureiotCOMMAND_FAKE_END_TIME>>

\* A request with a start time has been answered 200 after two property
\* updates that left the current temperature below the maximum.
C30_Witness ==
    /\ CommandSucceeded
    /\ Len(applied) >= 2
    /\ xDeviceCurrentTemperature < xDeviceMaximumTemperature
    /\ xDeviceAverageTemperature[2] > 1
    /\ pxMessage.pvMessagePayload.kind = "string"
    /\ pxMessage.pvMessagePayload.text # ""

(***************************************************************************)
(* Properties of the publish loop, of the callbacks' place in it and of    *)
(* the calls on the hub.                                                   *)
(***************************************************************************)
\* C31: in the publish loop the telemetry comes first (after the property
\* request or after the delay of the cycle before) and carries the current
\* temperature; the step after it is the report of the maximum, which is
\* sent in every cycle, whatever the last update did to the maximum, and
\* carries the maximum; the poll comes after the report; and the delay
\* comes after the poll has returned and leads to the next telemetry.
C31_CycleOrder ==
    [][/\ last' = "AzureIoTHubClient_SendTelemetry" =>
             /\ pc = "telemetry"
             /\ last \in {"AzureIoTHubClient_GetProperties", "vTaskDelay"}
             /\ Len(out') = 1
             /\ out'[1].kind = "telemetry"
             /\ out'[1].value = xDeviceCurrentTemperature
       /\ pc = "max_temp" =>
             /\ last = "AzureIoTHubClient_SendTelemetry"
             /\ last' = "prvSendNewMaxTemp"
             /\ pc' = "poll"
             /\ Len(out') = 1
             /\ out'[1].kind = "maxTempReport"
             /\ out'[1].value = xDeviceMaximumTemperature
       /\ (pc = "poll" /\ last' # "receive") =>
             last \in {"prvSendNewMaxTemp", "receive"}
       /\ last' = "AzureIoTHubClient_ProcessLoop" =>
             pc \in {"poll", "callback_done"}
       /\ pc = "idle" =>
             /\ last = "AzureIoTHubClient_ProcessLoop"
             /\ last' = "vTaskDelay"
             /\ pc' = "telemetry"]_vars

\* In a later cycle, after updates that left the current temperature below
\* the maximum, the report of the maximum has been sent again.
C31_Witness ==
    /\ pc = "poll"
    /\ last = "prvSendNewMaxTemp"
    /\ Len(applied) >= 2
    /\ xDeviceCurrentTemperature < xDeviceMaximumTemperature
    /\ xDeviceMaximumTemperature > sampleazureiotDEFAULT_START_TEMP_CELSIUS
    /\ out[1].value = xDeviceMaximumTemperature
    /\ session.ackedVersion > 0

(***************************************************************************)
(* The publish loop with prvHandlePropertyUpdate run call by call: the     *)
(* task is in its first poll, connected and subscribed, and the hub has    *)
(* one message for it, which it may deliver in every poll.  Here out       *)
(* collects what the running callback has sent so far.                     *)
(***************************************************************************)
StepsInit ==
    /\ xDeviceCurrentTemperature = sampleazureiotDEFAULT_START_TEMP_CELSIUS
    /\ xDeviceMaximumTemperature = sampleazureiotDEFAULT_START_TEMP_CELSIUS
    /\ xDeviceMinimumTemperature = sampleazureiotDEFAULT_START_TEMP_CELSIUS
    /\ xDeviceTemperatureSummation = sampleazureiotDEFAULT_START_TEMP_CELSIUS
    /\ ulDeviceTemperatureCount = sampleazureiotDEFAULT_START_TEMP_COUNT
    /\ xDeviceAverageTemperature =
           <<sampleazureiotDEFAULT_START_TEMP_CELSIUS, 1>>
    /\ applied = <<>>
    /\ NoUpdateFrame
    /\ NoConnectFrame
    /\ invocations = 1
    /\ previous = "connected"
    /\ ulStatus = 0
    /\ xResult = "eAzureIoTSuccess"
    /\ assertsEnabled \in BOOLEAN
    /\ dpsEnabled = FALSE
    /\ pc = "poll"
    /\ caller = "task"
    /\ transport = "open"
    /\ session = [connected |-> TRUE, getPending |-> TRUE,
                  getRequests |-> 1, ackedVersion |-> 0]
    /\ subscribed = {"command", "properties"}
    /\ out = <<MaxTempReport(sampleazureiotDEFAULT_START_TEMP_CELSIUS)>>
    /\ last = "prvSendNewMaxTemp"
    /\ pxMessage \in CommandRequests \cup PropertyDocuments

\* The positions inside prvHandlePropertyUpdate after prvProcessProperties.
UpdatePcs == {"update_local", "ack", "report"}

\* prvHandleProperties calls prvHandlePropertyUpdate, which calls
\* prvProcessProperties and tests its result.
CallProcessProperties ==
    /\ pc = "poll"
    /\ ~IsCommandRequest(pxMessage)
    /\ pxMessage.xMessageType \in PropertyUpdateMessages
    /\ session.connected
    /\ "properties" \in subscribed
    /\ Len(applied) < MaxUpdates
    /\ IF pxMessage.xMessageType = "eAzureIoTHubPropertiesGetMessage"
       THEN /\ session.getPending
            /\ session' = [session EXCEPT !.getPending = FALSE]
       ELSE UNCHANGED session
    /\ LET r == prvProcessProperties(pxMessage)
       IN /\ xHandlerResult' = r.xResult
          /\ xIncomingTemperature' = r.temperature
          /\ ulVersion' = IF r.versionSet THEN r.version ELSE ulVersion
          /\ pc' = IF r.xResult = "eAzureIoTSuccess"
                   THEN "update_local" ELSE "callback_done"
    /\ xWasMaxTemperatureChanged' = FALSE
    /\ out' = <<>>
    /\ last' = "prvProcessProperties"
    /\ UNCHANGED <<deviceVars, connectVars, ulStatus, xResult, pxMessage,
                   buildVars, caller, transport, subscribed, invocations,
                   previous>>

\* prvUpdateLocalProperties( xIncomingTemperature, ulVersion,
\*                           &xWasMaxTemperatureChanged )
CallUpdateLocalProperties ==
    /\ pc = "update_local"
    /\ prvUpdateLocalProperties(xIncomingTemperature)
    /\ pc' = "ack"
    /\ last' = "prvUpdateLocalProperties"
    /\ UNCHANGED <<xIncomingTemperature, ulVersion, xHandlerResult,
                   connectVars, ulStatus, xResult, pxMessage, buildVars,
                   caller, hubVars, out, invocations, previous>>

\* prvAckIncomingTemperature( xIncomingTemperature, ulVersion ), then the
\* test of xWasMaxTemperatureChanged.
CallAckIncomingTemperature ==
    /\ pc = "ack"
    /\ out' = Append(out, TemperatureAck(xIncomingTemperature, ulVersion))
    /\ pc' = IF xWasMaxTemperatureChanged THEN "report" ELSE "callback_done"
    /\ last' = "prvAckIncomingTemperature"
    /\ UNCHANGED <<deviceVars, updateVars, connectVars, ulStatus, xResult,
                   pxMessage, buildVars, caller, hubVars, invocations,
                   previous>>

\* prvSendNewMaxTemp( xIncomingTemperature ) inside prvHandlePropertyUpdate.
CallSendNewMaxTemp ==
    /\ pc = "report"
    /\ out' = Append(out, MaxTempReport(xIncomingTemperature))
    /\ pc' = "callback_done"
    /\ last' = "prvSendNewMaxTemp"
    /\ UNCHANGED <<deviceVars, updateVars, connectVars, ulStatus, xResult,
                   pxMessage, buildVars, caller, hubVars, invocations,
                   previous>>

\* The poll hands the answer to a reported property to prvHandleProperties.
DeliverReported ==
    /\ ~IsCommandRequest(pxMessage)
    /\ pxMessage.xMessageType
          = "eAzureIoTHubPropertiesReportedResponseMessage"
    /\ prvHandleProperties(pxMessage)

StepsNext ==
    \/ CallProcessProperties
    \/ CallUpdateLocalProperties
    \/ CallAckIncomingTemperature
    \/ CallSendNewMaxTemp
    \/ DeliverReported
    \/ DeliverCommand
    \/ ProcessLoopNext
    \/ ProcessLoopReturn
    \/ Idle
    \/ SendTelemetry
    \/ SendMaxTemp

SpecSteps == StepsInit /\ [][StepsNext]_vars

TornDown == pc = "task_call" /\ transport = "closed"

\* C33: once a publish or the poll has failed, the session is given up and,
\* whatever the unsubscribes and the session close answer, the transport is
\* closed and the task comes back to the top of its outer loop to connect
\* again.
C33_TeardownAlwaysRestarts == StreamingFailed ~> TornDown

\* The task from its start to the assertion that follows its connect: every
\* call of prvConnectToServerWithBackoffRetries the program makes is in this
\* part, since the task never comes back to the top of its outer loop.  The
\* task keeps taking the steps it can take.
ConnectNext ==
    \/ TaskStart
    \/ DpsConnect
    \/ DpsAssertConnected
    \/ DpsRegister
    \/ TaskConnect
    \/ ConnectAttempt
    \/ ConnectBackoff
    \/ ConnectSleep
    \/ ConnectRetry
    \/ ConnectReturn
    \/ TaskAssertConnected

SpecConnectLive == Init /\ [][ConnectNext]_vars /\ WF_vars(ConnectNext)

\* C34: every call of prvConnectToServerWithBackoffRetries returns, given
\* that the task keeps taking steps (each connect and each delay returns).
\* In a call there are at most sampleazureiotRETRY_MAX_ATTEMPTS + 1 connects
\* and at most sampleazureiotRETRY_MAX_ATTEMPTS delays, fewer delays than
\* connects, and a delay is taken only after a connect that failed and is
\* followed by the next connect of the same call.
C34_ConnectTerminates ==
    /\ [](InConnect =>
            /\ nConnects <= sampleazureiotRETRY_MAX_ATTEMPTS + 1
            /\ nSleeps <= sampleazureiotRETRY_MAX_ATTEMPTS
            /\ nSleeps <= nConnects
            /\ pc \in {"backoff", "sleep"} => nSleeps < nConnects)
    /\ [][/\ pc' = "sleep" =>
                /\ pc = "backoff"
                /\ last = "TLS_Socket_Connect"
                /\ xNetworkStatus = "eTLSTransportConnectFailure"
          /\ pc = "sleep" =>
                /\ last' = "vTaskDelay"
                /\ pc' = "loop_cond"
                /\ nSleeps' = nSleeps + 1
                /\ nConnects' = nConnects
          /\ (pc = "loop_cond" /\ last = "vTaskDelay") =>
                pc' = "tls_connect"
          /\ (pc = "tls_connect" /\ last = "retry") =>
                /\ last' = "TLS_Socket_Connect"
                /\ nConnects' = nConnects + 1]_vars
    /\ InConnect ~> Returned

\* The last connect the retries allow has succeeded, after five delays, and
\* the call is about to return.
C34_Witness ==
    /\ pc = "loop_cond"
    /\ Connected
    /\ nConnects = sampleazureiotRETRY_MAX_ATTEMPTS + 1
    /\ nSleeps = sampleazureiotRETRY_MAX_ATTEMPTS
    /\ transport = "open"

\* The steps that issue an operation of the session protocol: the calls on
\* the hub client, the periodic report and the callbacks' responses.
SessionOperations ==
    NetworkCalls \cup {"prvSendNewMaxTemp", "prvHandleCommand"}
      \cup PropertyUpdateMessages

\* C35: an operation of the session protocol is issued only while the
\* transport is open: none after prvConnectToServerWithBackoffRetries has
\* returned its failure, and none after the transport was closed.
C35_OperationsNeedTransport ==
    [][last' \in SessionOperations =>
          /\ transport = "open"
          /\ ulStatus = 0]_vars

====
